---- MODULE Spec2Model ----
(***************************************************************************)
(* Refract: the retry wrapper (scripts/utils.py), the multi-critic         *)
(* consensus (scripts/multi_critic.py), the photo editor's edit call       *)
(* (scripts/editor.py) and the batch pipeline (scripts/pipeline.py).       *)
(*                                                                         *)
(* Text is modelled as a sequence of one-character strings, so that        *)
(* str.lower(), str.strip() and the `in` substring test are computed.      *)
(* Scores are counted in half points (a score of 70.5 is 141): sums and    *)
(* halves of such values are exact in binary floating point, so Python's   *)
(* round(x, 1) is round-half-even on them.  Consensus scores are counted   *)
(* in tenths of a point (80.0 is 800).  Delays are counted in tenths of a  *)
(* second.                                                                 *)
(***************************************************************************)
EXTENDS Integers, Sequences, FiniteSets, TLC

VARIABLES
    \* retry_with_backoff.wrapper (utils.py)
    max_retries, initial_delay, backoff_factor, attempt, delay,
    last_exception, wpc, call_count, sleeps, fres, wresult,
    \* the wrapped operation of the retry tests: what its i-th call does
    script,
    \* MultiCritic.analyze (multi_critic.py)
    critics, cpc, cidx, critiques, scores, all_improvements, invoked, cresult,
    \* PhotoEditor.edit (editor.py)
    epc, improvements, max_passes, pass_index, image_data, working_img,
    output, gen_calls, fb_log, eres,
    \* RefractPipeline.run and process_image (pipeline.py)
    files, dry_run, has_editor, rpc, images, valid_images, invalid_images,
    max_workers, queue, tpc, critique, fut, lock, entries, successful, failed,
    site_builds,
    \* pipeline.py 22-28: whether pillow_heif could be imported
    HEIC_SUPPORT,
    \* BaseCritic._parse_response (multi_critic.py): the text and the result
    raw_response, presult,
    \* SiteGenerator (generator.py): the clock, the processed directory, the
    \* entry pages and the index page under public, the IDs create_entry
    \* returned, the build_site calls made, the last call
    now, processed, public, index_html, created, build_count, last_call

retryVars == <<max_retries, initial_delay, backoff_factor, attempt, delay,
               last_exception, wpc, call_count, sleeps, fres, wresult>>

criticVars == <<critics, cpc, cidx, critiques, scores, all_improvements,
                invoked, cresult>>

editVars == <<epc, improvements, max_passes, pass_index, image_data,
              working_img, output, gen_calls, fb_log, eres>>

runVars == <<files, dry_run, has_editor, rpc, images, valid_images,
             invalid_images, max_workers, queue, tpc, critique, fut, lock,
             entries, successful, failed, site_builds, HEIC_SUPPORT>>

parseVars == <<raw_response, presult>>

genVars == <<now, processed, public, index_html, created, build_count, last_call>>

vars == <<retryVars, script, criticVars, editVars, runVars, parseVars, genVars>>

(***************************************************************************)
(* Bounds                                                                  *)
(***************************************************************************)
MaxRetries == 3
\* the longest improvements list handed to edit, the largest GEMINI_IMAGE_PASSES
MaxEditImprovements == 4
MaxPasses == 3
\* the most files the inbox holds when run starts
MaxImages == 4

(***************************************************************************)
(* Text                                                                    *)
(***************************************************************************)
UpperLetters == <<"A","B","C","D","E","F","G","H","I","J","K","L","M",
                  "N","O","P","Q","R","S","T","U","V","W","X","Y","Z">>
LowerLetters == <<"a","b","c","d","e","f","g","h","i","j","k","l","m",
                  "n","o","p","q","r","s","t","u","v","w","x","y","z">>
Whitespace == {" ", "\t", "\n"}

UpperSet == {UpperLetters[i] : i \in DOMAIN UpperLetters}
LowerTable ==
    [c \in UpperSet |->
        LowerLetters[CHOOSE i \in DOMAIN UpperLetters : UpperLetters[i] = c]]

LowerChar(c) == IF c \in UpperSet THEN LowerTable[c] ELSE c

\* str.lower()
Lower(s) == [i \in DOMAIN s |-> LowerChar(s[i])]

UpperTable ==
    [c \in {LowerLetters[i] : i \in DOMAIN LowerLetters} |->
        UpperLetters[CHOOSE i \in DOMAIN LowerLetters : LowerLetters[i] = c]]

UpperChar(c) == IF c \in DOMAIN UpperTable THEN UpperTable[c] ELSE c

\* str.upper()
Upper(s) == [i \in DOMAIN s |-> UpperChar(s[i])]

Max(a, b) == IF a >= b THEN a ELSE b

Min(a, b) == IF a <= b THEN a ELSE b

\* str.strip(): drop leading and trailing whitespace
Strip(s) ==
    LET keep == {i \in DOMAIN s : s[i] \notin Whitespace}
    IN IF keep = {} THEN <<>>
       ELSE LET lo == CHOOSE i \in keep : \A j \in keep : i <= j
                hi == CHOOSE i \in keep : \A j \in keep : j <= i
            IN SubSeq(s, lo, hi)

\* pat in s
Contains(s, pat) ==
    \E i \in 1..(Len(s) - Len(pat) + 1) : SubSeq(s, i, i + Len(pat) - 1) = pat

(***************************************************************************)
(* Error messages the wrapped operations raise in this model               *)
(***************************************************************************)
Msg429 == <<"4","2","9"," ","t","o","o"," ","m","a","n","y"," ","r","e","q","u","e","s","t","s">>
MsgRateLimit == <<"R","a","t","e"," ","L","i","m","i","t"," ","e","x","c","e","e","d","e","d">>
MsgTooMany == <<"t","o","o"," ","m","a","n","y"," ","r","e","q","u","e","s","t","s">>
MsgBadInput == <<"b","a","d"," ","i","n","p","u","t">>
Messages == {Msg429, MsgRateLimit, MsgTooMany, MsgBadInput}

None == "None"

\* image_data = None (editor.py 356, 374, 383)
NoImageData == [kind |-> "none"]

\* 'score': None in a critique (scores are >= 0)
NoScore == -1

Returned(v) == [kind |-> "return", value |-> v]
Raised(m) == [kind |-> "raise", value |-> m]

(***************************************************************************)
(* retry_with_backoff (utils.py)                                           *)
(***************************************************************************)
RetryablePatterns ==
    { <<"r","a","t","e"," ","l","i","m","i","t">>,
      <<"q","u","o","t","a">>,
      <<"t","o","o"," ","m","a","n","y"," ","r","e","q","u","e","s","t","s">>,
      <<"4","2","9">>,
      <<"t","i","m","e","o","u","t">>,
      <<"t","e","m","p","o","r","a","r","i","l","y"," ","u","n","a","v","a","i","l","a","b","l","e">>,
      <<"s","e","r","v","i","c","e"," ","u","n","a","v","a","i","l","a","b","l","e">>,
      <<"5","0","3">>,
      <<"5","0","0">> }

\* a mutant: the message is matched without lower-casing it
is_retryable_cased(e) == \E p \in RetryablePatterns : Contains(e, p)

\* utils.py 30-43
is_retryable(e) ==
    LET error_msg == Lower(e)
    IN \E p \in RetryablePatterns : Contains(error_msg, p)

\* a mutant: the loop gives up one attempt early
must_raise_early(e, a, m) == ~is_retryable(e) \/ a + 1 >= m

\* a mutant: every error is retried until the attempts run out
must_raise_blind(e, a, m) == a = m

\* utils.py 45: if not is_retryable or attempt == max_retries: raise
must_raise(e, a, m) == ~is_retryable(e) \/ a = m

\* a mutant: the delay grows by the factor instead of being multiplied by it
next_delay_additive(d, f) == d + f

\* utils.py 51: delay *= backoff_factor
next_delay(d, f) == d * f

\* the wrapper is entered: utils.py 22-23
WrapperEnter(m, d, f) ==
    /\ max_retries = m
    /\ initial_delay = d
    /\ backoff_factor = f
    /\ attempt = 0
    /\ delay = d
    /\ last_exception = None
    /\ wpc = "loop"
    /\ call_count = 0
    /\ sleeps = <<>>
    /\ fres = None
    /\ wresult = None

\* utils.py 25-27: the next iteration of the loop calls func
WrapperCall ==
    /\ wpc = "loop"
    /\ attempt <= max_retries
    /\ wpc' = "in_func"
    /\ call_count' = call_count + 1
    /\ UNCHANGED <<max_retries, initial_delay, backoff_factor, attempt, delay,
                   last_exception, sleeps, fres, wresult>>

\* func leaves with outcome o (a return value or an exception)
FuncLeaves(o) ==
    /\ wpc = "in_func"
    /\ wpc' = "handle"
    /\ fres' = o
    /\ UNCHANGED <<max_retries, initial_delay, backoff_factor, attempt, delay,
                   last_exception, call_count, sleeps, wresult>>

\* utils.py 27-51: return func's value, or classify its exception, raise or
\* sleep and go round again
WrapperHandle ==
    /\ wpc = "handle"
    /\ fres' = None
    /\ IF fres.kind = "return"
       THEN /\ wpc' = "returned"
            /\ wresult' = fres
            /\ UNCHANGED <<attempt, delay, last_exception, sleeps>>
       ELSE /\ last_exception' = fres.value
            /\ IF must_raise(fres.value, attempt, max_retries)
               THEN /\ wpc' = "raised"
                    /\ wresult' = fres
                    /\ UNCHANGED <<attempt, delay, sleeps>>
               ELSE /\ sleeps' = Append(sleeps, delay)
                    /\ delay' = next_delay(delay, backoff_factor)
                    /\ attempt' = attempt + 1
                    /\ wpc' = "loop"
                    /\ UNCHANGED wresult
    /\ UNCHANGED <<max_retries, initial_delay, backoff_factor, call_count>>

(***************************************************************************)
(* MultiCritic.analyze (multi_critic.py)                                   *)
(***************************************************************************)
\* _parse_response has not returned or raised
NotParsed == [kind |-> "none"]

\* not in use: no response is being parsed
ParseIdle ==
    /\ raw_response = <<>>
    /\ presult = NotParsed

\* index.html does not exist
NoIndex == [kind |-> "absent"]

\* not in use: a generator over an empty repository that was never called
GenIdle ==
    /\ now = 0
    /\ processed = {}
    /\ public = {}
    /\ index_html = NoIndex
    /\ created = <<>>
    /\ build_count = 0
    /\ last_call = "none"

\* not in use: no pipeline has been constructed
RunIdle ==
    /\ files = {}
    /\ dry_run = FALSE
    /\ has_editor = FALSE
    /\ rpc = "idle"
    /\ images = <<>>
    /\ valid_images = <<>>
    /\ invalid_images = {}
    /\ max_workers = 0
    /\ queue = <<>>
    /\ tpc = <<>>
    /\ critique = <<>>
    /\ fut = <<>>
    /\ lock = {}
    /\ entries = {}
    /\ successful = 0
    /\ failed = 0
    /\ site_builds = 0
    /\ HEIC_SUPPORT = FALSE

\* not in use: no edit call has been made
EditIdle ==
    /\ epc = "idle"
    /\ improvements = <<>>
    /\ max_passes = 1
    /\ pass_index = 0
    /\ image_data = NoImageData
    /\ working_img = None
    /\ output = None
    /\ gen_calls = <<>>
    /\ fb_log = <<>>
    /\ eres = None

\* not in use: the state of a MultiCritic no analyze call has touched
CriticIdle ==
    /\ critics = <<>>
    /\ cpc = "idle"
    /\ cidx = 0
    /\ critiques = <<>>
    /\ scores = <<>>
    /\ all_improvements = <<>>
    /\ invoked = <<>>
    /\ cresult = None

\* multi_critic.py 285-304: the critics are appended in this order
CriticNames == <<"gemini", "openai", "anthropic">>

\* multi_critic.py 283-307: any non-empty selection of the three, in order
CriticLists ==
    { <<"gemini">>, <<"openai">>, <<"anthropic">>,
      <<"gemini", "openai">>, <<"gemini", "anthropic">>,
      <<"openai", "anthropic">>, <<"gemini", "openai", "anthropic">> }

ImpBoost == <<"B","o","o","s","t"," ","c","o","n","t","r","a","s","t">>
ImpBoostVariant == <<"b","o","o","s","t"," ","C","O","N","T","R","A","S","T"," ">>
ImpLift == <<"L","i","f","t"," ","s","h","a","d","o","w","s">>
ImpLiftVariant == <<" "," ","l","i","f","t"," ","S","h","a","d","o","w","s">>
ImpCrop == <<"C","r","o","p"," ","t","i","g","h","t","e","r">>
NotesText == <<"o","k">>
AnalysisFailedPrefix == <<"A","n","a","l","y","s","i","s"," ","f","a","i","l","e","d",":"," ">>

\* the improvements lists a backend's parsed critique carries in this model
ImprovementLists ==
    { <<ImpBoost, ImpBoost, ImpBoostVariant>>,
      <<ImpLift>>,
      <<ImpLiftVariant, ImpCrop>>,
      <<ImpCrop, ImpBoostVariant, ImpLift>> }

(***************************************************************************)
(* BaseCritic._parse_response (multi_critic.py 92-147)                     *)
(*                                                                         *)
(* A response text is a sequence of tokens: a blank, a newline, a ``` fence *)
(* marker, the word json, other prose, or the text of one JSON value.  A   *)
(* JSON value is a record tagged j; a number carries its value h in half   *)
(* points (a priority: as it is).                                          *)
(***************************************************************************)
Ws == [t |-> "ws"]
Nl == [t |-> "nl"]
Fence == [t |-> "fence"]
JsonWord == [t |-> "json"]
Prose == [t |-> "prose"]
ValueText(v) == [t |-> "value", v |-> v]
\* the k-th of the n lines a pretty-printed JSON value is written on
ValuePart(v, k, n) == [t |-> "part", v |-> v, k |-> k, n |-> n]

Num(h) == [j |-> "number", h |-> h]
JTrue == [j |-> "bool", b |-> TRUE]
JNull == [j |-> "null"]
Str(s) == [j |-> "string", s |-> s]
List(items) == [j |-> "array", items |-> items]
Obj(m) == [j |-> "object", m |-> m]

MsgJSONDecode == <<"E","x","p","e","c","t","i","n","g"," ","v","a","l","u","e">>
MsgMissingKeys == <<"M","i","s","s","i","n","g"," ","r","e","q","u","i","r","e","d"," ","k","e","y","s">>
MsgScoreNumber == <<"S","c","o","r","e"," ","m","u","s","t"," ","b","e"," ","a"," ","n","u","m","b","e","r">>
MsgImprovementsList == <<"I","m","p","r","o","v","e","m","e","n","t","s"," ","m","u","s","t"," ","b","e"," ","a"," ","l","i","s","t">>
MsgNotesString == <<"N","o","t","e","s"," ","m","u","s","t"," ","b","e"," ","a"," ","s","t","r","i","n","g">>
MsgNoAttribute == <<"n","o"," ","a","t","t","r","i","b","u","t","e">>

IntensitySubtle == <<"s","u","b","t","l","e">>
IntensityStrong == <<"s","t","r","o","n","g">>
DefaultIntensity == <<"m","o","d","e","r","a","t","e">>
GenreLandscape == <<"l","a","n","d","s","c","a","p","e">>
DefaultGenre == <<"u","n","k","n","o","w","n">>

\* multi_critic.py 120: min(100, ...), in half points
MaxScore == 200
\* multi_critic.py 128: x.get('priority', 5)
DefaultPriority == 5

IsSpace(tok) == tok.t \in {"ws", "nl"}

\* str.strip() on a response text
StripText(text) ==
    LET keep == {i \in DOMAIN text : ~IsSpace(text[i])}
    IN IF keep = {} THEN <<>>
       ELSE LET lo == CHOOSE i \in keep : \A k \in keep : i <= k
                hi == CHOOSE i \in keep : \A k \in keep : k <= i
            IN SubSeq(text, lo, hi)

RECURSIVE SplitLines(_)
\* text.split('\n')
SplitLines(text) ==
    LET nls == {i \in DOMAIN text : text[i].t = "nl"}
    IN IF nls = {} THEN <<text>>
       ELSE LET k == CHOOSE i \in nls : \A n \in nls : i <= n
            IN <<SubSeq(text, 1, k - 1)>>
               \o SplitLines(SubSeq(text, k + 1, Len(text)))

RECURSIVE JoinLines(_)
\* '\n'.join(lines)
JoinLines(lines) ==
    IF lines = <<>> THEN <<>>
    ELSE IF Len(lines) = 1 THEN lines[1]
    ELSE lines[1] \o <<Nl>> \o JoinLines(Tail(lines))

\* a mutant: only the opening fence line is removed
unwrap_keeps_last_line(response_text) ==
    LET stripped == StripText(response_text)
        unfenced == IF stripped /= <<>> /\ stripped[1].t = "fence"
                    THEN JoinLines(Tail(SplitLines(stripped)))
                    ELSE stripped
    IN IF unfenced /= <<>> /\ unfenced[1].t = "json"
       THEN StripText(Tail(unfenced))
       ELSE unfenced

\* multi_critic.py 94-101: strip, drop the first and the last line of a
\* fenced text, drop a leading 'json'
unwrap(response_text) ==
    LET stripped == StripText(response_text)
        unfenced == IF stripped /= <<>> /\ stripped[1].t = "fence"
                    THEN LET lines == SplitLines(stripped)
                         IN JoinLines(SubSeq(lines, 2, Len(lines) - 1))
                    ELSE stripped
    IN IF unfenced /= <<>> /\ unfenced[1].t = "json"
       THEN StripText(Tail(unfenced))
       ELSE unfenced

\* multi_critic.py 104: json.loads accepts one JSON value with blanks around
\* it and, for a value written on several lines, blanks and newlines between
\* its lines
json_loads(text) ==
    LET body == SelectSeq(text, LAMBDA tok : ~IsSpace(tok))
    IN IF Len(body) = 1 /\ body[1].t = "value"
       THEN Returned(body[1].v)
       ELSE IF /\ body /= <<>>
               /\ \A i \in DOMAIN body :
                     /\ body[i].t = "part"
                     /\ body[i].v = body[1].v
                     /\ body[i].k = i
                     /\ body[i].n = Len(body)
       THEN Returned(body[1].v)
       ELSE Raised(MsgJSONDecode)

\* a mutant: the score is not clamped
clamp_score_unbounded(score) == IF score.j = "bool" THEN 2 ELSE score.h

\* multi_critic.py 120: max(0, min(100, float(score))); float(True) is 1.0
clamp_score(score) ==
    LET x == IF score.j = "bool" THEN 2 ELSE score.h
    IN Max(0, Min(MaxScore, x))

\* a mutant: an item without a priority sorts first
priority_of_missing_first(imp) ==
    IF "priority" \in DOMAIN imp.m THEN imp.m.priority.h ELSE 0

\* multi_critic.py 128: x.get('priority', 5)
priority_of(imp) ==
    IF "priority" \in DOMAIN imp.m THEN imp.m.priority.h ELSE DefaultPriority

RECURSIVE sorted_by_priority(_)
\* multi_critic.py 126-129: sorted() is stable
sorted_by_priority(items) ==
    IF items = <<>> THEN <<>>
    ELSE LET first == CHOOSE i \in DOMAIN items :
                        \A k \in DOMAIN items :
                           \/ priority_of(items[i]) < priority_of(items[k])
                           \/ priority_of(items[i]) = priority_of(items[k]) /\ i <= k
         IN <<items[first]>>
            \o sorted_by_priority([k \in 1..(Len(items) - 1) |->
                                     IF k < first THEN items[k] ELSE items[k + 1]])

\* multi_critic.py 134: f"[{imp.get('intensity', 'moderate').upper()}] {imp.get('action', '')}"
tagged_action(imp) ==
    LET intensity == IF "intensity" \in DOMAIN imp.m THEN imp.m.intensity.s
                     ELSE DefaultIntensity
        action == IF "action" \in DOMAIN imp.m THEN imp.m.action.s ELSE <<>>
    IN <<"[">> \o Upper(intensity) \o <<"]", " ">> \o action

\* a list item that is not a str stays in the list as it is; it is held here
\* as a mark followed by its JSON type
NotAString(item) == <<"not a str", item.j>>

\* imp is a Python str
IsString(imp) == imp = <<>> \/ imp[1] /= "not a str"

\* a list item as the returned critique holds it: a string is its text
item_value(item) == IF item.j = "string" THEN item.s ELSE NotAString(item)

\* a mutant: an empty improvements array gets a default improvement
final_improvements_default(imps) == IF imps = <<>> THEN <<DefaultIntensity>> ELSE imps

\* multi_critic.py 122-147: the improvements list is returned as it is
\* after the rewrite of structured items
final_improvements(imps) == imps

\* multi_critic.py 139-145: the context (its genre)
context_of(m) ==
    [genre |-> IF "genre" \in DOMAIN m THEN m.genre.s ELSE DefaultGenre]

\* multi_critic.py 106-147: the decoded value is validated and normalized
validated(value) ==
    IF value.j /= "object" THEN Raised(MsgNoAttribute)
    ELSE LET m == value.m IN
    IF ~({"score", "improvements", "notes"} \subseteq DOMAIN m)
    THEN Raised(MsgMissingKeys)
    ELSE IF m.score.j \notin {"number", "bool"} THEN Raised(MsgScoreNumber)
    ELSE IF m.improvements.j /= "array" THEN Raised(MsgImprovementsList)
    ELSE IF m.notes.j /= "string" THEN Raised(MsgNotesString)
    ELSE LET items == m.improvements.items
             structured == items /= <<>> /\ items[1].j = "object"
         IN IF structured /\ \E i \in DOMAIN items : items[i].j /= "object"
            THEN Raised(MsgNoAttribute)
            ELSE IF structured
            THEN LET sorted_improvements == sorted_by_priority(items)
                 IN Returned([score |-> clamp_score(m.score),
                              improvements |-> final_improvements(
                                  [i \in DOMAIN items |->
                                      tagged_action(sorted_improvements[i])]),
                              improvements_detailed |-> sorted_improvements,
                              notes |-> m.notes.s,
                              context |-> context_of(m)])
            ELSE Returned([score |-> clamp_score(m.score),
                           improvements |-> final_improvements(
                               [i \in DOMAIN items |-> item_value(items[i])]),
                           notes |-> m.notes.s,
                           context |-> context_of(m)])

\* multi_critic.py 92-147
parse_response(response_text) ==
    LET decoded == json_loads(unwrap(response_text))
    IN IF decoded.kind = "raise" THEN decoded ELSE validated(decoded.value)

\* scores the backends answer with, in half points: -10, 60, 70, 70.5, 71,
\* 80, 150
BackendScores == {-20, 120, 140, 141, 142, 160, 300}

\* improvements lists that pass the validation of _parse_response although
\* not every item is a string: a string before an object, an object before
\* a string, a number
MixedImprovementLists ==
    { <<Str(ImpLift), Obj([action |-> Str(ImpCrop), priority |-> Num(1)])>>,
      <<Obj([action |-> Str(ImpCrop), priority |-> Num(1)]), Str(ImpLift)>>,
      <<Num(6)>> }

\* what a backend call does inside critic.analyze: the API call raises, or
\* it answers with the text of a JSON object (some of them naming a genre:
\* portrait, street or an empty string)
BackendReplies ==
    { [kind |-> "raise", value |-> m] : m \in {MsgBadInput, Msg429} }
    \cup { [kind |-> "text",
            text |-> <<ValueText(Obj([score |-> Num(sc),
                                      improvements |-> List([i \in DOMAIN imps |-> Str(imps[i])]),
                                      notes |-> Str(NotesText)]))>>] :
              sc \in BackendScores, imps \in ImprovementLists }
    \cup { [kind |-> "text",
            text |-> <<ValueText(Obj([score |-> Num(140),
                                      improvements |-> List(items),
                                      notes |-> Str(NotesText)]))>>] :
              items \in MixedImprovementLists }
    \cup { [kind |-> "text",
            text |-> <<ValueText(Obj([score |-> Num(140),
                                      improvements |-> List(<<Str(ImpLift)>>),
                                      notes |-> Str(NotesText),
                                      genre |-> Str(g)]))>>] :
              g \in { <<"p","o","r","t","r","a","i","t">>,
                      <<"s","t","r","e","e","t">>, <<>> } }

\* multi_critic.py 176-193, 212-232, 248-262: critic.analyze hands back
\* self._parse_response(text), or raises what the API call raised
critic_analyze(reply) ==
    IF reply.kind = "raise" THEN Raised(reply.value)
    ELSE parse_response(reply.text)

\* critic.analyze on every reply of this model
BackendOutcome == [reply \in BackendReplies |-> critic_analyze(reply)]

RECURSIVE SeqSum(_)
SeqSum(q) == IF q = <<>> THEN 0 ELSE Head(q) + SeqSum(Tail(q))

\* round() on an exact value num/den >= 0: to nearest, ties to even
RoundHalfEven(num, den) ==
    LET q == num \div den
        r == num % den
    IN IF 2 * r < den THEN q
       ELSE IF 2 * r > den THEN q + 1
       ELSE IF q % 2 = 0 THEN q ELSE q + 1

\* a mutant: a failed backend counts as a score of 0
consensus_score_zero_for_failed(ss) ==
    IF ss = <<>> THEN 0
    ELSE RoundHalfEven(5 * SeqSum(ss), Len(critics))

\* multi_critic.py 355-356, 375: round(sum(valid_scores) / len(valid_scores), 1)
\* in tenths of a point, from scores in half points; 0 when there is none
consensus_score(ss) ==
    LET valid_scores == SelectSeq(ss, LAMBDA x : x /= NoScore)
    IN IF valid_scores = <<>> THEN 0
       ELSE RoundHalfEven(5 * SeqSum(valid_scores), Len(valid_scores))

\* a mutant: the improvement is compared as written
normalize_verbatim(imp) == imp

\* multi_critic.py 362: imp.lower().strip()
normalize(imp) == Strip(Lower(imp))

RECURSIVE dedupe(_, _, _)
\* multi_critic.py 359-365: the loop over all_improvements
dedupe(imps, seen, unique_improvements) ==
    IF imps = <<>> THEN unique_improvements
    ELSE LET imp == Head(imps)
             imp_lower == normalize(imp)
         IN IF imp_lower \notin seen
            THEN dedupe(Tail(imps), seen \cup {imp_lower},
                        Append(unique_improvements, imp))
            ELSE dedupe(Tail(imps), seen, unique_improvements)

\* unique_improvements[:n]
Take(q, n) == SubSeq(q, 1, IF Len(q) < n THEN Len(q) ELSE n)

\* multi_critic.py 323-328: analyze is entered
AnalyzeEnter(cs) ==
    /\ critics = cs
    /\ cpc = "loop"
    /\ cidx = 1
    /\ critiques = <<>>
    /\ scores = <<>>
    /\ all_improvements = <<>>
    /\ invoked = <<>>
    /\ cresult = None

\* a mutant: the first failure ends the loop
NextCritic_abort(o) == IF o.kind = "raise" THEN Len(critics) + 1 ELSE cidx + 1

\* multi_critic.py 330: the for loop moves on whatever the critic did
NextCritic(o) == cidx + 1

\* multi_critic.py 330-352: one critic is asked; its critique is recorded, or
\* its exception is caught and recorded as an error entry.  invoked logs the
\* calls of critic.analyze and what each one did.
AnalyzeCritic ==
    /\ cpc = "loop"
    /\ cidx <= Len(critics)
    /\ \E reply \in BackendReplies : LET o == BackendOutcome[reply] IN
        /\ invoked' = Append(invoked, [llm |-> critics[cidx], reply |-> reply,
                                        outcome |-> o])
        /\ cidx' = NextCritic(o)
        /\ IF o.kind = "return"
           THEN /\ critiques' = Append(critiques,
                       [llm |-> critics[cidx],
                        score |-> o.value.score,
                        improvements |-> o.value.improvements,
                        notes |-> o.value.notes])
                /\ scores' = Append(scores, o.value.score)
                /\ all_improvements' = all_improvements \o o.value.improvements
           ELSE /\ critiques' = Append(critiques,
                       [llm |-> critics[cidx], error |-> o.value,
                        score |-> NoScore,
                        improvements |-> <<>>,
                        notes |-> AnalysisFailedPrefix \o o.value])
                /\ UNCHANGED <<scores, all_improvements>>
    /\ UNCHANGED <<critics, cpc, cresult>>

\* multi_critic.py 340-341: the contexts of the critiques that were returned
contexts_of(calls) ==
    LET returned == SelectSeq(calls, LAMBDA c : c.outcome.kind = "return")
    IN [i \in DOMAIN returned |-> returned[i].outcome.value.context]

\* multi_critic.py 392: [c.get('genre', 'unknown') for c in contexts if c.get('genre')]
genres_of(contexts) ==
    LET named == SelectSeq(contexts, LAMBDA c : c.genre /= <<>>)
    IN [i \in DOMAIN named |-> named[i].genre]

\* multi_critic.py 393: max(set(genres), key=genres.count) hands back the
\* first value of the largest count in the iteration order of the set, which
\* for strings follows their hashes (randomized per process), not the order
\* of the backends: any of the values of the largest count can come out
merged_genres(genres) ==
    LET count(g) == Cardinality({i \in DOMAIN genres : genres[i] = g})
    IN IF genres = <<>> THEN {DefaultGenre}
       ELSE {g \in {genres[i] : i \in DOMAIN genres} :
               \A k \in DOMAIN genres : count(g) >= count(genres[k])}

\* multi_critic.py 354-384: consensus, de-duplication, the returned dict
\* (summary, notes, improvements_detailed and the other keys of the context
\* are left out; the context is {} when no critic returned one); the loop of the de-duplication is outside the try of the
\* critics' loop, so an AttributeError of imp.lower() leaves analyze
AnalyzeReturn ==
    /\ cpc = "loop"
    /\ cidx > Len(critics)
    /\ IF \A i \in DOMAIN all_improvements : IsString(all_improvements[i])
       THEN /\ LET unique_improvements == dedupe(all_improvements, {}, <<>>)
                   contexts == contexts_of(invoked)
               IN \E genre \in merged_genres(genres_of(contexts)) :
                    cresult' = [critiques |-> critiques,
                                consensus_score |-> consensus_score(scores),
                                combined_improvements |-> unique_improvements,
                                context |-> IF contexts = <<>> THEN [empty |-> TRUE]
                                            ELSE [genre |-> genre],
                                score |-> consensus_score(scores),
                                improvements |-> Take(unique_improvements, 5)]
            /\ cpc' = "returned"
       ELSE /\ cpc' = "raised"
            /\ UNCHANGED cresult
    /\ UNCHANGED <<critics, cidx, critiques, scores, all_improvements, invoked>>

RetryIdle ==
    /\ WrapperEnter(0, 0, 0)
    /\ script = <<>>

CriticInit ==
    /\ \E cs \in CriticLists : AnalyzeEnter(cs)
    /\ RetryIdle
    /\ ParseIdle
    /\ GenIdle
    /\ EditIdle
    /\ RunIdle

CriticNext ==
    \/ AnalyzeCritic /\ UNCHANGED <<retryVars, script, parseVars, editVars, runVars, genVars>>
    \/ AnalyzeReturn /\ UNCHANGED <<retryVars, script, parseVars, editVars, runVars, genVars>>

SpecCritic == CriticInit /\ [][CriticNext]_vars

(***************************************************************************)
(* _parse_response on the texts a backend may answer with                  *)
(***************************************************************************)
\* scores a backend may give, in half points: -10, 0, 70.5, 100, 100.5, 150,
\* true, a string, null
ResponseScores == {Num(-20), Num(0), Num(141), Num(200), Num(201), Num(300),
                   JTrue, Str(NotesText), JNull}

StructuredBoost == Obj([action |-> Str(ImpBoost), intensity |-> Str(IntensitySubtle),
                        priority |-> Num(3)])
StructuredLift == Obj([action |-> Str(ImpLift), intensity |-> Str(IntensityStrong),
                       priority |-> Num(1)])
StructuredCrop == Obj([action |-> Str(ImpCrop), priority |-> Num(2)])
StructuredBare == Obj([action |-> Str(ImpCrop)])
StructuredFive == Obj([action |-> Str(ImpLiftVariant), intensity |-> Str(IntensityStrong),
                       priority |-> Num(5)])
StructuredLate == Obj([action |-> Str(ImpBoostVariant), priority |-> Num(7)])

\* improvements values a backend may give: arrays of strings, of structured
\* items (priorities 3, 1, 2; an item with defaults among priorities 3 and
\* 1; items without a priority before and after one of priority 5, with
\* priorities 7 and 1 around them), mixed ones, the empty array, and a
\* string in place of the array
ResponseImprovements ==
    { List(<<>>),
      List(<<Str(ImpBoost), Str(ImpLiftVariant)>>),
      List(<<StructuredBoost, StructuredLift, StructuredCrop>>),
      List(<<StructuredBare, StructuredBoost, StructuredLift>>),
      List(<<StructuredLate, StructuredBare, StructuredFive, StructuredLift>>),
      List(<<StructuredFive, StructuredBare>>),
      List(<<StructuredBoost, Str(ImpLift)>>),
      List(<<Str(ImpLift), StructuredBoost>>),
      Str(ImpBoost) }

ResponseObjects ==
    { Obj([score |-> sc, improvements |-> imps, notes |-> Str(NotesText)]) :
          sc \in ResponseScores, imps \in ResponseImprovements }
    \cup { Obj([score |-> Num(171), improvements |-> imps, notes |-> Str(NotesText),
                genre |-> Str(GenreLandscape)]) : imps \in ResponseImprovements }
    \cup { Obj([score |-> Num(171), improvements |-> imps, notes |-> JNull]) :
                imps \in ResponseImprovements }
    \cup { Obj([improvements |-> List(<<>>), notes |-> Str(NotesText)]),
           Obj([score |-> Num(160), notes |-> Str(NotesText)]),
           Obj([score |-> Num(160), improvements |-> List(<<>>)]),
           List(<<>>) }

\* how the backend lays the JSON value out in its answer
Layouts(v) ==
    { <<ValueText(v)>>,
      <<Ws, ValueText(v), Nl>>,
      <<Fence, JsonWord, Nl, ValueText(v), Nl, Fence>>,
      <<Fence, Nl, ValueText(v), Nl, Fence, Nl>>,
      <<JsonWord, Nl, ValueText(v)>>,
      <<Fence, JsonWord, Ws, ValueText(v), Fence>>,
      <<Prose, Nl, ValueText(v)>>,
      <<ValuePart(v, 1, 2), Nl, Ws, ValuePart(v, 2, 2)>>,
      <<Fence, JsonWord, Nl, ValuePart(v, 1, 2), Nl, Ws, ValuePart(v, 2, 2), Nl, Fence>>,
      <<Nl, Ws, Fence, Nl, Ws, ValueText(v), Ws, Nl, Fence, Ws, Nl>>,
      <<Fence, JsonWord, Nl, ValuePart(v, 1, 2), Nl, Fence>> }

ParseInit ==
    /\ \E v \in ResponseObjects : raw_response \in Layouts(v)
    /\ presult = NotParsed
    /\ RetryIdle
    /\ CriticIdle
    /\ EditIdle
    /\ RunIdle
    /\ GenIdle

\* multi_critic.py 92-147: the text is parsed
ParseResponse ==
    /\ presult = NotParsed
    /\ presult' = parse_response(raw_response)
    /\ UNCHANGED <<raw_response, retryVars, script, criticVars, editVars, runVars, genVars>>

ParseNext == ParseResponse

SpecParse == ParseInit /\ [][ParseNext]_vars

(***************************************************************************)
(* PhotoEditor.edit (editor.py), under @retry_with_backoff(3, 2.0)         *)
(***************************************************************************)
\* editor.py 332: the decorator's arguments (the delay in tenths of a second)
EditMaxRetries == 3
EditInitialDelay == 20
\* utils.py 10: the default backoff_factor
DefaultBackoffFactor == 2

\* the improvements handed to edit are a prefix of this list
EditImprovementPool == <<ImpBoost, ImpLift, ImpCrop, ImpBoostVariant, ImpLiftVariant>>

\* editor.py 23-26: the words _IMPROVEMENT_TAG_RE accepts between brackets
IntensityTags ==
    { <<"s","u","b","t","l","e">>,
      <<"m","o","d","e","r","a","t","e">>,
      <<"s","i","g","n","i","f","i","c","a","n","t">>,
      <<"s","t","r","o","n","g">>,
      <<"m","a","j","o","r">>,
      <<"m","i","n","o","r">>,
      <<"s","e","v","e","r","e">>,
      <<"l","i","g","h","t">>,
      <<"h","e","a","v","y">> }

\* editor.py 23-26, 69: _IMPROVEMENT_TAG_RE.match(imp): blanks, "[", one of
\* the words in any case, "]", blanks; after is imp[match.end():]
tag_match(imp) ==
    LET blanks == {i \in DOMAIN imp : \A j \in 1..i : imp[j] \in Whitespace}
        rest == SubSeq(imp, Cardinality(blanks) + 1, Len(imp))
        found == {t \in IntensityTags :
                    /\ Len(rest) >= Len(t) + 2
                    /\ rest[1] = "["
                    /\ Lower(SubSeq(rest, 2, Len(t) + 1)) = t
                    /\ rest[Len(t) + 2] = "]"}
    IN IF found = {} THEN [matched |-> FALSE]
       ELSE LET t == CHOOSE w \in found : TRUE
            IN [matched |-> TRUE,
                group1 |-> SubSeq(rest, 2, Len(t) + 1),
                after |-> SubSeq(rest, Len(t) + 3, Len(rest))]

\* editor.py 64-82: the (action, intensity) pairs of the prompt: items that
\* are not strings and items without an action are left out, and a default
\* polish stands in when nothing is left
parsed_improvements(imps) ==
    LET strings == SelectSeq(imps, IsString)
        pair(imp) ==
            LET match == tag_match(imp)
            IN IF match.matched
               THEN [action |-> Strip(match.after), intensity |-> Lower(match.group1)]
               ELSE [action |-> Strip(imp), intensity |-> DefaultIntensity]
        pairs == [i \in DOMAIN strings |-> pair(strings[i])]
        kept == SelectSeq(pairs, LAMBDA pr : pr.action /= <<>>)
    IN IF kept = <<>>
       THEN << [action |-> <<"A","p","p","l","y"," ","a"," ","s","u","b","t","l","e",","," ",
              "n","a","t","u","r","a","l"," ","p","o","l","i","s","h"," ","o",
              "n","l","y"," ","i","f"," ","n","e","e","d","e","d"," ","(","e",
              "x","p","o","s","u","r","e","/","c","o","n","t","r","a","s","t",
              "/","w","h","i","t","e"," ","b","a","l","a","n","c","e",")",".">>,
                intensity |-> IntensitySubtle] >>
       ELSE kept

\* improvements as multi_critic.py 134 writes them, '[INTENSITY] action':
\* '[SIGNIFICANT] Boost contrast' / ' [subtle]  Lift shadows' / '[STRONG] Crop tighter' / '[Moderate] ' / '[bold] Crop tighter'
TaggedImprovementPool ==
    << <<"[","S","I","G","N","I","F","I","C","A","N","T","]"," ","B","o","o","s","t"," ","c","o","n","t","r","a","s","t">>,
       <<" ","[","s","u","b","t","l","e","]"," "," ","L","i","f","t"," ","s","h","a","d","o","w","s">>,
       <<"[","S","T","R","O","N","G","]"," ","C","r","o","p"," ","t","i","g","h","t","e","r">>,
       <<"[","M","o","d","e","r","a","t","e","]"," ">>,
       <<"[","b","o","l","d","]"," ","C","r","o","p"," ","t","i","g","h","t","e","r">> >>

\* a mutant: the chunk size is rounded down
chunk_improvements_floor(imps, passes) ==
    IF passes <= 1 \/ Len(imps) <= 1 THEN <<imps>>
    ELSE LET chunk_size == Max(1, Len(imps) \div passes)
             n == (Len(imps) + chunk_size - 1) \div chunk_size
         IN [c \in 1..n |->
                SubSeq(imps, (c - 1) * chunk_size + 1,
                       IF c * chunk_size < Len(imps) THEN c * chunk_size
                       ELSE Len(imps))]

\* editor.py 243-248
chunk_improvements(imps, passes) ==
    IF passes <= 1 \/ Len(imps) <= 1 THEN <<imps>>
    ELSE LET chunk_size == Max(1, (Len(imps) + passes - 1) \div passes)
             n == (Len(imps) + chunk_size - 1) \div chunk_size
         IN [c \in 1..n |->
                SubSeq(imps, (c - 1) * chunk_size + 1,
                       IF c * chunk_size < Len(imps) THEN c * chunk_size
                       ELSE Len(imps))]

\* the original image, Image.open(image_path)
OriginalImage == [kind |-> "original"]

\* what generate_content does in one pass: it raises, or its response holds
\* no image payload, or it holds image bytes: decodable or not (Image.open +
\* load), more than 100 bytes or not, passing verify() once written or not
GenResponses(p) ==
    { [kind |-> "raise", msg |-> m] : m \in {Msg429, MsgBadInput} }
    \cup { [kind |-> "no_image"] }
    \cup { [kind |-> "data", pass |-> p, decodable |-> d, big |-> b, verifies |-> v] :
              d \in BOOLEAN, b \in BOOLEAN, v \in BOOLEAN }

\* the image a pass's bytes decode to
Decoded(data) == [kind |-> "generated", pass |-> data.pass]

\* a mutant: the size check is dropped
worth_saving_any_size(data) == data.kind = "data"

\* editor.py 388: if image_data and len(image_data) > 100
worth_saving(data) == data.kind = "data" /\ data.big

\* the file _apply_basic_enhancements(img, improvements) is saved to
FallbackOutput == [kind |-> "fallback", of |-> OriginalImage, improvements |-> improvements]

\* editor.py 352-357: the wrapper calls edit; the original is opened, or
\* Image.open raises
EditCall ==
    /\ WrapperCall
    /\ epc = "idle"
    /\ pass_index' = 1
    /\ image_data' = NoImageData
    /\ \E opened \in BOOLEAN :
          IF opened
          THEN epc' = "loop" /\ working_img' = OriginalImage
          ELSE epc' = "except" /\ working_img' = None
    /\ UNCHANGED <<improvements, max_passes, output, gen_calls, fb_log, eres>>

\* a mutant: the loop goes round again after a pass without usable data
after_unusable_data_continues == "loop"

\* editor.py 375-376, 381-384: break leaves the loop of the passes
after_unusable_data == "save"

\* a mutant: the bytes of the pass before stay the bytes to save
data_after_abort_keeps(previous) == previous

\* editor.py 374, 383: image_data is None when the loop is left early, the
\* bytes of the passes before are dropped
data_after_abort(previous) == NoImageData

\* a mutant: every pass is given the image the first pass was given
next_working_img_unchanged(current, data) == current

\* editor.py 379-380: working_img = Image.open(io.BytesIO(image_data))
next_working_img(current, data) == Decoded(data)

\* editor.py 359-384: one pass of the loop
EditPass ==
    /\ epc = "loop"
    /\ pass_index <= Len(chunk_improvements(improvements, max_passes))
    /\ \E r \in GenResponses(pass_index) :
        /\ gen_calls' = Append(gen_calls,
               [call |-> call_count,
                pass_index |-> pass_index,
                pass_improvements |-> chunk_improvements(improvements, max_passes)[pass_index],
                prompt |-> parsed_improvements(
                    chunk_improvements(improvements, max_passes)[pass_index]),
                working_img |-> working_img,
                response |-> r])
        /\ CASE r.kind = "raise" ->
                  /\ epc' = "except"
                  /\ UNCHANGED <<image_data, working_img, pass_index>>
             [] r.kind = "no_image" ->
                  /\ image_data' = data_after_abort(image_data)
                  /\ epc' = after_unusable_data
                  /\ UNCHANGED <<working_img, pass_index>>
             [] r.kind = "data" /\ ~r.decodable ->
                  /\ image_data' = data_after_abort(image_data)
                  /\ epc' = after_unusable_data
                  /\ UNCHANGED <<working_img, pass_index>>
             [] r.kind = "data" /\ r.decodable ->
                  /\ image_data' = r
                  /\ working_img' = next_working_img(working_img, r)
                  /\ pass_index' = pass_index + 1
                  /\ UNCHANGED epc
    /\ UNCHANGED <<improvements, max_passes, output, fb_log, eres>>

\* editor.py 386-398, 412: after the loop the bytes are written and verified
EditSave ==
    /\ \/ epc = "save"
       \/ /\ epc = "loop"
          /\ pass_index > Len(chunk_improvements(improvements, max_passes))
    /\ IF worth_saving(image_data)
       THEN IF image_data.verifies
            THEN /\ output' = Decoded(image_data)
                 /\ eres' = TRUE
                 /\ epc' = "return"
            ELSE /\ output' = None
                 /\ epc' = "fallback"
                 /\ UNCHANGED eres
       ELSE /\ epc' = "fallback"
            /\ UNCHANGED <<output, eres>>
    /\ UNCHANGED <<improvements, max_passes, pass_index, image_data,
                   working_img, gen_calls, fb_log>>

\* editor.py 400-412: no image was saved: the PIL enhancement of the
\* original is saved and verified, or one of these steps raises
EditFallback ==
    /\ epc = "fallback"
    /\ \E ok \in BOOLEAN :
        /\ fb_log' = Append(fb_log, [call |-> call_count, at |-> "try", ok |-> ok])
        /\ IF ok
           THEN /\ output' = FallbackOutput
                /\ eres' = TRUE
                /\ epc' = "return"
           ELSE /\ epc' = "except"
                /\ UNCHANGED <<output, eres>>
    /\ UNCHANGED <<improvements, max_passes, pass_index, image_data,
                   working_img, gen_calls>>

\* a mutant: the handler gives up whatever its fallback did
handler_result_gives_up(fallback_ok) == FALSE

\* editor.py 417-430: the handler returns True after its fallback was saved
\* and verified, False when anything in it raised
handler_result(fallback_ok) == fallback_ok

\* editor.py 414-430: the handler of any exception of the body
EditExcept ==
    /\ epc = "except"
    /\ \E ok \in BOOLEAN :
        /\ fb_log' = Append(fb_log, [call |-> call_count, at |-> "except", ok |-> ok])
        /\ eres' = handler_result(ok)
        /\ IF ok
           THEN output' = FallbackOutput
           ELSE UNCHANGED output
        /\ epc' = "return"
    /\ UNCHANGED <<improvements, max_passes, pass_index, image_data,
                   working_img, gen_calls>>

\* editor.py 412, 427, 430: edit hands True or False back to the wrapper
EditReturn ==
    /\ epc = "return"
    /\ FuncLeaves(Returned(eres))
    /\ epc' = "idle"
    /\ UNCHANGED <<improvements, max_passes, pass_index, image_data,
                   working_img, output, gen_calls, fb_log, eres>>

EditInit ==
    /\ WrapperEnter(EditMaxRetries, EditInitialDelay, DefaultBackoffFactor)
    /\ script = <<>>
    /\ ParseIdle
    /\ GenIdle
    /\ CriticIdle
    /\ RunIdle
    /\ epc = "idle"
    /\ \E k \in 0..MaxEditImprovements, pool \in {EditImprovementPool, TaggedImprovementPool} :
          improvements = Take(pool, k)
    /\ max_passes \in 1..MaxPasses
    /\ pass_index = 0
    /\ image_data = NoImageData
    /\ working_img = None
    /\ output = None
    /\ gen_calls = <<>>
    /\ fb_log = <<>>
    /\ eres = None

EditNext ==
    \/ EditCall /\ UNCHANGED <<script, parseVars, criticVars, runVars, genVars>>
    \/ EditPass /\ UNCHANGED <<retryVars, script, parseVars, criticVars, runVars, genVars>>
    \/ EditSave /\ UNCHANGED <<retryVars, script, parseVars, criticVars, runVars, genVars>>
    \/ EditFallback /\ UNCHANGED <<retryVars, script, parseVars, criticVars, runVars, genVars>>
    \/ EditExcept /\ UNCHANGED <<retryVars, script, parseVars, criticVars, runVars, genVars>>
    \/ EditReturn /\ UNCHANGED <<script, parseVars, criticVars, runVars, genVars>>
    \/ WrapperHandle /\ UNCHANGED <<script, parseVars, criticVars, editVars, runVars, genVars>>

SpecEdit == EditInit /\ [][EditNext]_vars

(***************************************************************************)
(* RefractPipeline.run and process_image (pipeline.py)                     *)
(*                                                                         *)
(* A file name is [edited |-> k, id |-> i]: "img<i>.jpg" with "edited_"    *)
(* in front k times.  files is the set of names present in the inbox.      *)
(***************************************************************************)
\* pipeline.py 324: min(3, ...)
WorkerCap == 3

InboxName(i) == [edited |-> 0, id |-> i]

\* pipeline.py 184: image_path.parent / f"edited_{image_path.name}"
EditedPath(p) == [edited |-> p.edited + 1, id |-> p.id]

\* a file a previous run left behind: "edited_img1.jpg"
StaleEdited == EditedPath(InboxName(1))

\* the order of sorted() on the paths: "edited_..." sorts before "img..."
NameBefore(a, b) ==
    \/ a.edited > b.edited
    \/ a.edited = b.edited /\ a.id < b.id

RECURSIVE Sorted(_)
\* pipeline.py 118: sorted(images)
Sorted(S) ==
    IF S = {} THEN <<>>
    ELSE LET first == CHOOSE a \in S : \A b \in S \ {a} : NameBefore(a, b)
         IN <<first>> \o Sorted(S \ {first})

Range(q) == {q[i] : i \in DOMAIN q}

\* a mutant: one worker per image
worker_count_uncapped(n) == n

\* pipeline.py 324: max_workers = min(3, len(valid_images))
worker_count(n) == Min(WorkerCap, n)

\* a mutant: the lock is not taken
can_acquire_always(l) == TRUE

\* pipeline.py 260: with self._lock blocks while another worker holds it
can_acquire(l) == l = {}

\* multi_critic.py 373-384: the keys of the dict analyze returns
ConsensusKeys == {"critiques", "consensus_score", "combined_improvements",
                  "improvements_detailed", "context", "summary", "score",
                  "improvements", "notes"}

\* no analysis of the image has returned
NoCritique == {}

\* generator.py 63-70: the keys create_entry adds in the metadata it saves
EntryKeys == {"timestamp", "entry_id", "original_filename", "original_image",
              "edited_image"}

\* a mutant: create_entry adds its keys to the dict it was given
metadata_argument_updated(c) == c \cup EntryKeys

\* generator.py 63-70: {**metadata, ...} builds a new dict; the caller's
\* dict is as it was
metadata_argument_after(c) == c

\* a mutant: a failed re-review ends process_image
after_re_review_fatal(ok) == IF ok THEN "lock" ELSE "done"

\* pipeline.py 252-257: the handler of a re-review failure only prints, and
\* process_image goes on to STEP 4
after_re_review(ok) == "lock"

\* a mutant: a failed image is not reported to the main thread
Finish_silent(p, r) ==
    /\ tpc' = [tpc EXCEPT ![p] = IF r THEN "done" ELSE "counted"]
    /\ fut' = [fut EXCEPT ![p] = r]

\* process_image returns r: the future is done (pipeline.py 178, 274, 279)
Finish(p, r) ==
    /\ tpc' = [tpc EXCEPT ![p] = "done"]
    /\ fut' = [fut EXCEPT ![p] = r]

\* the steps of process_image a worker thread is executing
RunningSteps == {"analyze", "edit", "validate", "rereview", "lock",
                 "create_entry", "cleanup", "archive"}

\* the images some worker thread is processing
InFlight == {p \in DOMAIN tpc : tpc[p] \in RunningSteps}

runConfig == <<dry_run, has_editor, images, valid_images, invalid_images,
               max_workers, HEIC_SUPPORT>>
mainVars == <<rpc, successful, failed, site_builds>>

\* pipeline.py 57-93: the pipeline is constructed over an inbox
RunInit ==
    /\ \E n \in 0..MaxImages, stale \in BOOLEAN :
          /\ n + (IF stale THEN 1 ELSE 0) <= MaxImages
          /\ files = {InboxName(i) : i \in 1..n}
                     \cup (IF stale THEN {StaleEdited} ELSE {})
    /\ dry_run \in BOOLEAN
    /\ has_editor \in BOOLEAN
    /\ dry_run => ~has_editor
    /\ rpc = "start"
    /\ images = <<>>
    /\ valid_images = <<>>
    /\ invalid_images = {}
    /\ max_workers = 0
    /\ queue = <<>>
    /\ tpc = <<>>
    /\ critique = <<>>
    /\ fut = <<>>
    /\ lock = {}
    /\ entries = {}
    /\ successful = 0
    /\ failed = 0
    /\ site_builds = 0
    \* every file of these runs is a .jpg, found with or without the decoder
    /\ HEIC_SUPPORT = FALSE
    /\ RetryIdle
    /\ ParseIdle
    /\ GenIdle
    /\ CriticIdle
    /\ EditIdle

\* pipeline.py 293-303: get_new_images; run returns when there is none
RunDiscover ==
    /\ rpc = "start"
    /\ images' = Sorted(files)
    /\ rpc' = IF files = {} THEN "returned_early" ELSE "validate"
    /\ UNCHANGED <<files, dry_run, has_editor, valid_images, invalid_images,
                   max_workers, queue, tpc, critique, fut, lock, entries,
                   successful, failed, site_builds, HEIC_SUPPORT>>

\* pipeline.py 305-326: validate_images; run returns when none is valid
RunValidate ==
    /\ rpc = "validate"
    /\ \E bad \in SUBSET Range(images) :
        /\ invalid_images' = bad
        /\ valid_images' = SelectSeq(images, LAMBDA p : p \notin bad)
        /\ max_workers' = worker_count(Len(valid_images'))
        /\ tpc' = [p \in Range(images) \ bad |-> "unsubmitted"]
        /\ critique' = [p \in Range(images) \ bad |-> NoCritique]
        /\ fut' = [p \in Range(images) \ bad |-> FALSE]
        /\ rpc' = IF Range(images) \ bad = {} THEN "returned_early" ELSE "submit"
    /\ UNCHANGED <<files, dry_run, has_editor, images, queue, lock, entries,
                   successful, failed, site_builds, HEIC_SUPPORT>>

\* pipeline.py 328-333: the next image is submitted to the executor
RunSubmit ==
    /\ rpc = "submit"
    /\ LET k == Cardinality({q \in DOMAIN tpc : tpc[q] /= "unsubmitted"}) + 1
           p == valid_images[k]
       IN /\ queue' = Append(queue, p)
          /\ tpc' = [tpc EXCEPT ![p] = "queued"]
          /\ rpc' = IF k = Len(valid_images) THEN "collect" ELSE "submit"
    /\ UNCHANGED <<files, runConfig, critique, fut, lock, entries,
                   successful, failed, site_builds>>

\* ThreadPoolExecutor(max_workers): a free worker thread takes the next
\* work item and enters process_image (pipeline.py 328, 152-159)
WorkerTake ==
    /\ queue /= <<>>
    /\ Cardinality(InFlight) < max_workers
    /\ tpc' = [tpc EXCEPT ![Head(queue)] = "analyze"]
    /\ queue' = Tail(queue)
    /\ UNCHANGED <<files, runConfig, mainVars, critique, fut, lock, entries>>

\* a mutant: the dry-run check is missing
stops_after_analysis_never == FALSE

\* pipeline.py 176-178: if self.dry_run: return True
stops_after_analysis == dry_run

\* pipeline.py 157-178: STEP 1; an exception ends at 276-279; a dry run
\* stops here
Analyze(p) ==
    /\ tpc[p] = "analyze"
    /\ \E ok \in BOOLEAN :
          IF ~ok THEN Finish(p, FALSE) /\ UNCHANGED critique
          ELSE /\ critique' = [critique EXCEPT ![p] = ConsensusKeys]
               /\ IF stops_after_analysis THEN Finish(p, TRUE)
                  ELSE tpc' = [tpc EXCEPT ![p] = "edit"] /\ UNCHANGED fut
    /\ UNCHANGED <<files, runConfig, mainVars, queue, lock, entries>>

\* pipeline.py 180-202: STEP 2; edit writes edited_path, or the original is
\* copied there (which raises when the original is gone)
Edit(p) ==
    /\ tpc[p] = "edit"
    /\ \E success \in BOOLEAN :
          IF has_editor /\ success /\ p \in files
          THEN /\ files' = files \cup {EditedPath(p)}
               /\ tpc' = [tpc EXCEPT ![p] = "validate"]
               /\ UNCHANGED fut
          ELSE IF p \in files
          THEN /\ files' = files \cup {EditedPath(p)}
               /\ tpc' = [tpc EXCEPT ![p] = "validate"]
               /\ UNCHANGED fut
          ELSE /\ Finish(p, FALSE)
               /\ UNCHANGED files
    /\ UNCHANGED <<runConfig, mainVars, queue, critique, lock, entries>>

\* pipeline.py 204-220: the edited file is verified and loaded; when that
\* fails the original is copied over it and re-saved, which may raise
Validate(p) ==
    /\ tpc[p] = "validate"
    /\ \E valid \in BOOLEAN, resaved \in BOOLEAN :
          IF valid /\ EditedPath(p) \in files
          THEN /\ tpc' = [tpc EXCEPT ![p] = "rereview"]
               /\ UNCHANGED <<files, fut>>
          ELSE IF resaved /\ p \in files
          THEN /\ files' = files \cup {EditedPath(p)}
               /\ tpc' = [tpc EXCEPT ![p] = "rereview"]
               /\ UNCHANGED fut
          ELSE /\ Finish(p, FALSE)
               /\ UNCHANGED files
    /\ UNCHANGED <<runConfig, mainVars, queue, critique, lock, entries>>

\* pipeline.py 222-254: STEP 3; an exception is caught and the critique
\* carries no re_review
ReReview(p) ==
    /\ tpc[p] = "rereview"
    /\ \E ok \in BOOLEAN :
          /\ critique' = [critique EXCEPT ![p] =
                              IF ok THEN @ \cup {"re_review"} ELSE @]
          /\ tpc' = [tpc EXCEPT ![p] = after_re_review(ok)]
    /\ UNCHANGED <<files, runConfig, mainVars, queue, fut, lock, entries>>

\* a mutant: the temporary edited image is not removed before the original
after_create_entry_skips_cleanup == "archive"

\* pipeline.py 262-266: after the entry is created the temporary edited
\* image is removed
after_create_entry == "cleanup"

\* pipeline.py 260: the lock is acquired
Acquire(p) ==
    /\ tpc[p] = "lock"
    /\ can_acquire(lock)
    /\ lock' = lock \cup {p}
    /\ tpc' = [tpc EXCEPT ![p] = "create_entry"]
    /\ UNCHANGED <<files, runConfig, mainVars, queue, critique, fut, entries>>

\* a mutant: an exception of create_entry leaves the lock held
lock_after_create_entry_leaks(l, p, ok) == IF ok THEN l \ {p} ELSE l

\* pipeline.py 260-261: the with block releases the lock however it is left
lock_after_create_entry(l, p, ok) == l \ {p}

\* pipeline.py 260-262: create_entry under the lock, which is released on
\* the way out, also by an exception (generator.py 59-60 copy both files)
CreateEntry(p) ==
    /\ tpc[p] = "create_entry"
    /\ \E ok \in BOOLEAN :
          /\ lock' = lock_after_create_entry(lock, p, ok)
          /\ IF ok /\ p \in files /\ EditedPath(p) \in files
             THEN /\ entries' = entries \cup
                        {[original |-> p,
                          metadata |-> critique[p] \cup EntryKeys]}
                  /\ critique' = [critique EXCEPT ![p] = metadata_argument_after(@)]
                  /\ tpc' = [tpc EXCEPT ![p] = after_create_entry]
                  /\ UNCHANGED fut
             ELSE /\ Finish(p, FALSE)
                  /\ UNCHANGED <<entries, critique>>
    /\ UNCHANGED <<files, runConfig, mainVars, queue>>

\* pipeline.py 264-266: the temporary edited image is removed
Cleanup(p) ==
    /\ tpc[p] = "cleanup"
    /\ files' = files \ {EditedPath(p)}
    /\ tpc' = [tpc EXCEPT ![p] = "archive"]
    /\ UNCHANGED <<runConfig, mainVars, queue, critique, fut, lock, entries>>

\* pipeline.py 268-274: the original is removed from the inbox; unlink
\* raises when it is gone
Archive(p) ==
    /\ tpc[p] = "archive"
    /\ IF p \in files
       THEN files' = files \ {p} /\ Finish(p, TRUE)
       ELSE UNCHANGED files /\ Finish(p, FALSE)
    /\ UNCHANGED <<runConfig, mainVars, queue, critique, lock, entries>>

\* pipeline.py 336-346: as_completed hands over a finished future
RunCollect(p) ==
    /\ rpc = "collect"
    /\ tpc[p] = "done"
    /\ tpc' = [tpc EXCEPT ![p] = "counted"]
    /\ IF fut[p]
       THEN successful' = successful + 1 /\ UNCHANGED failed
       ELSE failed' = failed + 1 /\ UNCHANGED successful
    /\ UNCHANGED <<files, runConfig, rpc, site_builds, queue, critique, fut,
                   lock, entries>>

\* a mutant: run does not wait for the futures
executor_exited_at_once == TRUE

\* pipeline.py 328-346: the loop over as_completed has handled every future
\* and the with block of the executor is left
executor_exited == \A p \in DOMAIN tpc : tpc[p] = "counted"

\* pipeline.py 348-354: the executor has shut down; the site is rebuilt
\* unless this is a dry run; build_site may raise
RunBuild ==
    /\ rpc = "collect"
    /\ executor_exited
    /\ IF dry_run
       THEN rpc' = "summary" /\ UNCHANGED site_builds
       ELSE \E ok \in BOOLEAN :
               /\ site_builds' = site_builds + 1
               /\ rpc' = IF ok THEN "summary" ELSE "raised"
    /\ UNCHANGED <<files, runConfig, successful, failed, queue, tpc, critique,
                   fut, lock, entries>>

\* pipeline.py 356-366: the summary is printed
RunSummary ==
    /\ rpc = "summary"
    /\ rpc' = "done"
    /\ UNCHANGED <<files, runConfig, successful, failed, site_builds, queue,
                   tpc, critique, fut, lock, entries>>

notRun == <<retryVars, script, parseVars, criticVars, editVars, genVars>>

RunNext ==
    \/ RunDiscover /\ UNCHANGED notRun
    \/ RunValidate /\ UNCHANGED notRun
    \/ RunSubmit /\ UNCHANGED notRun
    \/ WorkerTake /\ UNCHANGED notRun
    \/ \E p \in DOMAIN tpc : Analyze(p) /\ UNCHANGED notRun
    \/ \E p \in DOMAIN tpc : Edit(p) /\ UNCHANGED notRun
    \/ \E p \in DOMAIN tpc : Validate(p) /\ UNCHANGED notRun
    \/ \E p \in DOMAIN tpc : ReReview(p) /\ UNCHANGED notRun
    \/ \E p \in DOMAIN tpc : Acquire(p) /\ UNCHANGED notRun
    \/ \E p \in DOMAIN tpc : CreateEntry(p) /\ UNCHANGED notRun
    \/ \E p \in DOMAIN tpc : Cleanup(p) /\ UNCHANGED notRun
    \/ \E p \in DOMAIN tpc : Archive(p) /\ UNCHANGED notRun
    \/ \E p \in DOMAIN tpc : RunCollect(p) /\ UNCHANGED notRun
    \/ RunBuild /\ UNCHANGED notRun
    \/ RunSummary /\ UNCHANGED notRun

SpecRun == RunInit /\ [][RunNext]_vars

\* the most files in the inbox of the runs checked for progress
MaxFairImages == 2

RunFairInit ==
    /\ RunInit
    /\ Cardinality(files) <= MaxFairImages

\* the main thread and the worker threads of the executor keep running: a
\* step that stays possible is taken in the end
SpecRunFair == RunFairInit /\ [][RunNext]_vars /\ WF_vars(RunNext)

(***************************************************************************)
(* SiteGenerator (generator.py): create_entry, get_all_entries, build_site *)
(*                                                                         *)
(* An entry ID is the pair of the clock's second and the value of          *)
(* os.urandom(4).hex(); directory names compare by second, then by that    *)
(* value.  An entry of the processed directory is its ID and the number of *)
(* the create_entry call that wrote its metadata.json.                     *)
(***************************************************************************)
\* create_entry calls, build_site calls, seconds on the clock, and values of
\* os.urandom(4).hex() (0..MaxSuffix stands for the 2^32 values)
MaxEntries == 3
MaxBuilds == 2
MaxClock == 1
MaxSuffix == 1

Suffixes == 0..MaxSuffix

\* generator.py 48-49: entry_id = f"{timestamp}-{os.urandom(4).hex()}"
entry_id_of(timestamp, suffix) == <<timestamp, suffix>>

\* the order of directory names: strings "YYYYMMDD-HHMMSS-hhhhhhhh"
NameLess(a, b) == a[1] < b[1] \/ (a[1] = b[1] /\ a[2] < b[2])

\* time passes: datetime.now() moves to the next second
Tick ==
    /\ now < MaxClock
    /\ now' = now + 1
    /\ UNCHANGED <<processed, public, index_html, created, build_count, last_call>>

\* generator.py 35-78: the entry directory is made if it does not exist
\* (mkdir(parents=True, exist_ok=True)), the images are copied into it and
\* metadata.json is written
create_entry(suffix) ==
    LET entry_id == entry_id_of(now, suffix)
        entry_dir == [entry_id |-> entry_id, call |-> Len(created) + 1]
    IN /\ Len(created) < MaxEntries
       /\ processed' = {e \in processed : e.entry_id /= entry_id} \cup {entry_dir}
       /\ created' = Append(created, entry_id)
       /\ last_call' = "create_entry"
       /\ UNCHANGED <<now, public, index_html, build_count>>

RECURSIVE sorted_reverse(_)
\* generator.py 112: sorted(self.processed_dir.iterdir(), reverse=True)
sorted_reverse(dirs) ==
    IF dirs = {} THEN <<>>
    ELSE LET top == CHOOSE e \in dirs :
                       \A o \in dirs : o = e \/ NameLess(o.entry_id, e.entry_id)
         IN <<top>> \o sorted_reverse(dirs \ {top})

\* generator.py 108-121
get_all_entries == sorted_reverse(processed)

\* generator.py 141-155 and 194: the IDs that have a page under public
existing_entry_ids(force_full) ==
    IF force_full THEN {} ELSE {page.entry_id : page \in public}

\* a mutant: every entry is treated as new
is_new_always(entry_id, existing) == TRUE

\* generator.py 231: is_new = entry_id not in existing_entry_ids
is_new(entry_id, existing) == entry_id \notin existing

\* the page entry.html renders for an entry; a page or an index edited by
\* hand (tests/test_generator.py 343-345, 383-385)
Rendered(entry) == [kind |-> "rendered", call |-> entry.call]
Modified == [kind |-> "modified"]

\* generator.py 183-279
build_site(force_full) ==
    LET all_entries == get_all_entries
        existing == existing_entry_ids(force_full)
        fresh == {e \in processed : is_new(e.entry_id, existing)}
    IN /\ build_count < MaxBuilds
       /\ public' = {page \in public : \A e \in fresh : e.entry_id /= page.entry_id}
                    \cup {[entry_id |-> e.entry_id, html |-> Rendered(e)] : e \in fresh}
       /\ index_html' = [kind |-> "rendered",
                         listed |-> [i \in DOMAIN all_entries |-> all_entries[i].entry_id]]
       /\ build_count' = build_count + 1
       /\ last_call' = IF force_full THEN "build_site_full" ELSE "build_site"
       /\ UNCHANGED <<now, processed, created>>

\* tests/test_generator.py 343-345: an entry page is edited by hand
ModifyEntryPage ==
    \E page \in public :
       /\ page.html /= Modified
       /\ public' = (public \ {page}) \cup {[entry_id |-> page.entry_id, html |-> Modified]}
       /\ last_call' = "write_text"
       /\ UNCHANGED <<now, processed, index_html, created, build_count>>

\* tests/test_generator.py 383-385: the index page is edited by hand
ModifyIndex ==
    /\ index_html.kind = "rendered"
    /\ index_html' = Modified
    /\ last_call' = "write_text"
    /\ UNCHANGED <<now, processed, public, created, build_count>>

GenInit ==
    /\ GenIdle
    /\ RetryIdle
    /\ ParseIdle
    /\ CriticIdle
    /\ EditIdle
    /\ RunIdle

notGen == <<retryVars, script, parseVars, criticVars, editVars, runVars>>

GenNext ==
    \/ Tick /\ UNCHANGED notGen
    \/ (\E suffix \in Suffixes : create_entry(suffix)) /\ UNCHANGED notGen
    \/ (\E force_full \in BOOLEAN : build_site(force_full)) /\ UNCHANGED notGen
    \/ ModifyEntryPage /\ UNCHANGED notGen
    \/ ModifyIndex /\ UNCHANGED notGen

SpecGen == GenInit /\ [][GenNext]_vars

(***************************************************************************)
(* The retry wrapper around an operation whose i-th call does script[i]    *)
(* (tests/test_utils.py: the call-counting functions)                      *)
(***************************************************************************)
InitialDelays == {1, 20}
BackoffFactors == {2, 3}
MockOutcomes == {Returned("success")} \cup {Raised(m) : m \in Messages}

\* 'too many requests' (tests/test_utils.py 84) in mixed case
PatTooManyMixed == <<"T","o","o"," ","M","a","n","y"," ","R","e","q","u","e","s","t","s">>

\* tests/test_utils.py 81-91: the messages of test_retryable_error_patterns,
\* the same in other letter cases, and messages without any pattern
PatternMessages ==
    { <<"q","u","o","t","a"," ","e","x","c","e","e","d","e","d">>,
      <<"t","o","o"," ","m","a","n","y"," ","r","e","q","u","e","s","t","s">>,
      <<"4","2","9"," ","e","r","r","o","r">>,
      <<"t","i","m","e","o","u","t"," ","e","r","r","o","r">>,
      <<"t","e","m","p","o","r","a","r","i","l","y"," ","u","n","a","v","a","i","l","a","b","l","e">>,
      <<"s","e","r","v","i","c","e"," ","u","n","a","v","a","i","l","a","b","l","e">>,
      <<"5","0","3"," ","s","e","r","v","i","c","e"," ","u","n","a","v","a","i","l","a","b","l","e">>,
      <<"5","0","0"," ","i","n","t","e","r","n","a","l"," ","s","e","r","v","e","r"," ","e","r","r","o","r">>,
      <<"r","a","t","e"," ","l","i","m","i","t"," ","e","x","c","e","e","d","e","d">>,
      <<"Q","U","O","T","A"," ","E","X","C","E","E","D","E","D">>,
      <<"G","a","t","e","w","a","y"," ","T","i","m","e","o","u","t">>,
      PatTooManyMixed,
      <<"t","o","o"," ","m","a","n","y"," ","f","i","l","e","s">>,
      <<"4","0","1"," ","u","n","a","u","t","h","o","r","i","z","e","d">>,
      <<"r","a","t","e"," ","e","x","c","e","e","d","e","d">> }

\* what func does on its successive calls: any outcomes, or the same
\* exception every time (test_retryable_error_patterns)
Scripts(n) ==
    [1..n -> MockOutcomes]
    \cup {[i \in 1..n |-> Raised(m)] : m \in PatternMessages}

RetryInit ==
    /\ \E m \in 0..MaxRetries, d \in InitialDelays, f \in BackoffFactors :
           WrapperEnter(m, d, f)
    /\ script \in Scripts(max_retries + 1)
    /\ ParseIdle
    /\ GenIdle
    /\ CriticIdle
    /\ EditIdle
    /\ RunIdle

MockCall ==
    /\ FuncLeaves(script[call_count])
    /\ UNCHANGED <<script, parseVars, criticVars, editVars, runVars, genVars>>

RetryNext ==
    \/ WrapperCall /\ UNCHANGED <<script, parseVars, criticVars, editVars, runVars, genVars>>
    \/ MockCall
    \/ WrapperHandle /\ UNCHANGED <<script, parseVars, criticVars, editVars, runVars, genVars>>

SpecRetry == RetryInit /\ [][RetryNext]_vars

(***************************************************************************)
(* Claims about the retry wrapper                                          *)
(***************************************************************************)
WrapperDone == wpc \in {"returned", "raised"}

RetryableMessages == {m \in Messages \cup PatternMessages : is_retryable(m)}

RetryableRaise(o) == o.kind = "raise" /\ o.value \in RetryableMessages

\* C3: when the first k calls (0 <= k <= max_retries) each raise a retryable
\* error and call k+1 succeeds, the wrapper calls the operation exactly k+1
\* times (never more, and k+1 when it ends) and returns the value of that
\* call; with k = 0 it never sleeps.
C3_SuccessAfterRetries ==
    \A k \in 0..max_retries :
        ( /\ \A i \in 1..k : RetryableRaise(script[i])
          /\ script[k + 1].kind = "return" )
        => /\ call_count <= k + 1
           /\ Len(sleeps) <= k
           /\ WrapperDone => /\ wpc = "returned"
                             /\ call_count = k + 1
                             /\ wresult = script[k + 1]

\* C3 witness: "429 too many requests" twice, then success, max_retries = 3:
\* returned after exactly 3 calls
C3_Witness ==
    /\ max_retries >= 3
    /\ script[1] = Raised(Msg429)
    /\ script[2] = Raised(Msg429)
    /\ script[3] = Returned("success")
    /\ wpc = "returned"
    /\ call_count = 3
    /\ wresult = Returned("success")

\* C4: when the operation raises an error that is not retryable, the wrapper
\* calls it exactly once, does not sleep, and raises that same error.
C4_NonRetryableOnce ==
    ( script[1].kind = "raise" /\ script[1].value \notin RetryableMessages )
    => /\ call_count <= 1
       /\ sleeps = <<>>
       /\ WrapperDone => /\ wpc = "raised"
                         /\ call_count = 1
                         /\ wresult = script[1]

\* C4 witness: "bad input" is raised to the caller after one call
C4_Witness ==
    /\ script[1] = Raised(MsgBadInput)
    /\ max_retries >= 3
    /\ wpc = "raised"
    /\ call_count = 1
    /\ wresult = Raised(MsgBadInput)

\* C5: the operation is never called more than max_retries + 1 times; when
\* every call raises a retryable error, the wrapper ends after exactly
\* max_retries + 1 calls by raising the error of the last call.
C5_RetriesExhausted ==
    /\ call_count <= max_retries + 1
    /\ ( \A i \in 1..(max_retries + 1) : RetryableRaise(script[i]) )
       => ( WrapperDone => /\ wpc = "raised"
                           /\ call_count = max_retries + 1
                           /\ wresult = script[max_retries + 1] )

\* C5 witness: max_retries = 2, three retryable errors, the last one (not the
\* first) is raised after 3 calls
C5_Witness ==
    /\ max_retries = 2
    /\ script[1] = Raised(MsgRateLimit)
    /\ script[2] = Raised(MsgTooMany)
    /\ script[3] = Raised(Msg429)
    /\ wpc = "raised"
    /\ call_count = 3
    /\ wresult = Raised(Msg429)

(***************************************************************************)
(* Claims about MultiCritic.analyze                                        *)
(***************************************************************************)
\* the calls of critic.analyze that handed back a critique / that raised
Succeeded == {i \in DOMAIN invoked : invoked[i].outcome.kind = "return"}
Failed == {i \in DOMAIN invoked : invoked[i].outcome.kind = "raise"}

RECURSIVE SumOver(_, _)
SumOver(f, S) ==
    IF S = {} THEN 0
    ELSE LET x == CHOOSE y \in S : TRUE IN f[x] + SumOver(f, S \ {x})

SucceededScoreSum ==
    SumOver([i \in DOMAIN invoked |->
                IF i \in Succeeded THEN invoked[i].outcome.value.score ELSE 0],
            Succeeded)

Abs(x) == IF x < 0 THEN -x ELSE x

\* C6: the consensus score is the mean of the scores of the backends that
\* succeeded, rounded to one decimal (it is a whole number of tenths at most
\* half a tenth away from the mean), failed backends counting neither in the
\* sum nor in the count, and 0 when every backend failed; [60, 80, 100] gives
\* 80.0, a failure plus 70 gives 70.0.
C6_ConsensusIsRoundedMean ==
    cpc = "returned" =>
        LET n == Cardinality(Succeeded)
            c == cresult.consensus_score
        IN /\ n = 0 => c = 0
           /\ n > 0 => 2 * Abs(c * n - 5 * SucceededScoreSum) <= n
           /\ ( n = 3 /\ \A i \in 1..3 :
                    invoked[i].outcome.value.score = <<120, 160, 200>>[i] )
              => c = 800
           /\ ( Len(invoked) = 2 /\ n = 1
                /\ \E i \in Succeeded : invoked[i].outcome.value.score = 140 )
              => c = 700

\* C6 witness: the first backend fails, the second scores 70: consensus 70.0
C6_Witness ==
    /\ cpc = "returned"
    /\ Len(invoked) = 2
    /\ invoked[1].outcome.kind = "raise"
    /\ invoked[2].outcome.kind = "return"
    /\ invoked[2].outcome.value.score = 140
    /\ cresult.consensus_score = 700

\* C7: in one analyze call every configured backend is invoked exactly once,
\* in order, and critiques holds one entry per backend in that order; a
\* backend that fails is recorded as an error entry with score None and notes
\* that say so, and the backends after it are still invoked.
C7_EveryBackendOnce ==
    /\ Len(invoked) <= Len(critics)
    /\ Len(critiques) = Len(invoked)
    /\ \A i \in DOMAIN invoked :
        /\ invoked[i].llm = critics[i]
        /\ critiques[i].llm = critics[i]
        /\ i \in Failed =>
              /\ critiques[i].score = NoScore
              /\ critiques[i].error = invoked[i].outcome.value
              /\ critiques[i].notes = AnalysisFailedPrefix \o invoked[i].outcome.value
              /\ critiques[i].improvements = <<>>
        /\ i \in Succeeded =>
              /\ critiques[i].score = invoked[i].outcome.value.score
              /\ "error" \notin DOMAIN critiques[i]
    /\ cpc = "returned" =>
        /\ Len(invoked) = Len(critics)
        /\ cresult.critiques = critiques

\* C7 witness: the first of three backends failed, the other two were still
\* invoked and analyze returned
C7_Witness ==
    /\ cpc = "returned"
    /\ Len(critics) = 3
    /\ 1 \in Failed
    /\ 2 \in Succeeded
    /\ 3 \in Failed
    /\ Len(cresult.critiques) = 3

RECURSIVE Flatten(_)
Flatten(qs) == IF qs = <<>> THEN <<>> ELSE Head(qs) \o Flatten(Tail(qs))

\* the improvements of the backends that succeeded, in invocation order
InvokedImprovements ==
    Flatten([i \in DOMAIN invoked |->
                IF i \in Succeeded THEN invoked[i].outcome.value.improvements
                ELSE <<>>])

\* lower-cased and trimmed
Normalized(imp) == Lower(Strip(imp))

FirstSeen(all, imp) ==
    CHOOSE i \in DOMAIN all :
        /\ Normalized(all[i]) = Normalized(imp)
        /\ \A j \in 1..(i - 1) : Normalized(all[j]) /= Normalized(imp)

\* C8: combined_improvements holds, in first-seen order over the backends in
\* invocation order, exactly one entry for each distinct improvement after
\* lower-casing and trimming, and that entry is the text of the first
\* occurrence.
C8_DedupFirstSeen ==
    cpc = "returned" =>
        LET all == InvokedImprovements
            c == cresult.combined_improvements
        IN /\ \A i \in DOMAIN all :
                  \E j \in DOMAIN c : Normalized(c[j]) = Normalized(all[i])
           /\ Len(c) = Cardinality({Normalized(all[i]) : i \in DOMAIN all})
           /\ \A j \in DOMAIN c :
                  /\ \E i \in DOMAIN all : Normalized(all[i]) = Normalized(c[j])
                  /\ c[j] = all[FirstSeen(all, c[j])]
           /\ \A j, k \in DOMAIN c :
                  j < k => FirstSeen(all, c[j]) < FirstSeen(all, c[k])

\* C8 witness: one backend with ['Boost contrast', 'Boost contrast',
\* 'boost CONTRAST '] gives exactly one entry, 'Boost contrast'
C8_Witness ==
    /\ cpc = "returned"
    /\ Len(invoked) = 1
    /\ 1 \in Succeeded
    /\ invoked[1].outcome.value.improvements = <<ImpBoost, ImpBoost, ImpBoostVariant>>
    /\ cresult.combined_improvements = <<ImpBoost>>

(***************************************************************************)
(* Claims about PhotoEditor.edit                                           *)
(***************************************************************************)
ValidBytes(r) == r.kind = "data" /\ r.decodable /\ r.big /\ r.verifies

\* generate_content was called, never raised, and no pass yielded valid
\* image bytes: no payload, undecodable, not over 100 bytes, or not verifying
NoValidBytes ==
    /\ gen_calls /= <<>>
    /\ \A i \in DOMAIN gen_calls :
          /\ gen_calls[i].response.kind /= "raise"
          /\ ~ValidBytes(gen_calls[i].response)

FallbackWorked == \E i \in DOMAIN fb_log : fb_log[i].ok

\* C9 as stated: if no generation pass yields valid image bytes, edit writes
\* the fallback enhancement as the output and reports success.
C9_FallbackAlwaysSucceeds ==
    ( wpc = "returned" /\ NoValidBytes )
    => /\ wresult = Returned(TRUE)
       /\ output = FallbackOutput

\* C9 amended: if no generation pass yields valid image bytes, edit runs the
\* fallback enhancement of the original with the full improvements list; when
\* the fallback works (in the body, or again in the exception handler) its
\* image is the output and edit reports success, and when it fails both
\* times edit reports failure.
C9_FallbackWhenNoValidBytes ==
    ( wpc = "returned" /\ NoValidBytes )
    => /\ fb_log /= <<>>
       /\ fb_log[1].at = "try"
       /\ FallbackWorked => wresult = Returned(TRUE) /\ output = FallbackOutput
       /\ ~FallbackWorked => wresult = Returned(FALSE) /\ Len(fb_log) = 2

\* C9 witness: the only pass returned decodable bytes of at most 100 bytes;
\* the fallback image is the output and edit returned True
C9_Witness ==
    /\ wpc = "returned"
    /\ NoValidBytes
    /\ \E i \in DOMAIN gen_calls :
          /\ gen_calls[i].response.kind = "data"
          /\ gen_calls[i].response.decodable
          /\ ~gen_calls[i].response.big
          /\ gen_calls[i].response.verifies
    /\ wresult = Returned(TRUE)
    /\ output = FallbackOutput
    /\ improvements /= <<>>

\* C10: edit is retried by the retry policy: when the generation call inside
\* edit fails with a retryable error, edit is invoked again after the backoff
\* delay (so the wrapper does not end after a single call without a sleep).
C10_EditRetriedOnRetryableError ==
    ( /\ WrapperDone
      /\ \E i \in DOMAIN gen_calls :
            /\ gen_calls[i].call = 1
            /\ gen_calls[i].response.kind = "raise"
            /\ is_retryable(gen_calls[i].response.msg) )
    => /\ call_count >= 2
       /\ sleeps /= <<>>

\* some pass of the primary path raised out of generate_content
GenerationRaised == \E i \in DOMAIN gen_calls : gen_calls[i].response.kind = "raise"

\* C11: edit reports failure if and only if the fallback enhancement was
\* attempted and did not produce a verified output; an exception on the
\* primary generation path leads to a fallback attempt before edit returns,
\* and edit always returns True or False (it never raises).
C11_FailureIffFallbackFails ==
    /\ wpc /= "raised"
    /\ wpc = "returned" =>
          /\ wresult \in {Returned(TRUE), Returned(FALSE)}
          /\ wresult = Returned(FALSE) <=> (fb_log /= <<>> /\ ~FallbackWorked)
          /\ GenerationRaised => fb_log /= <<>>
          /\ wresult = Returned(FALSE) => fb_log[Len(fb_log)].at = "except"

\* C11 witness: the second pass of the generation raised, the handler's
\* fallback failed too, and edit returned False
C11_Witness ==
    /\ wpc = "returned"
    /\ Len(gen_calls) = 2
    /\ gen_calls[2].response.kind = "raise"
    /\ fb_log = <<[call |-> 1, at |-> "except", ok |-> FALSE]>>
    /\ wresult = Returned(FALSE)

(***************************************************************************)
(* Claims about RefractPipeline.run                                        *)
(***************************************************************************)
InStep(step) == {p \in DOMAIN tpc : tpc[p] = step}

\* C1: at any instant at most min(3, number of valid images) images are
\* being processed, so never more than 3 analyze operations are in flight.
C1_AtMostThreeInFlight ==
    /\ Cardinality(InFlight) <= (IF Len(valid_images) < 3 THEN Len(valid_images) ELSE 3)
    /\ Cardinality(InStep("analyze")) <= 3

\* C1 witness: more than 3 valid images, 3 of them in analyze at once while
\* another waits in the executor's queue
C1_Witness ==
    /\ Len(valid_images) > 3
    /\ Cardinality(InStep("analyze")) = 3
    /\ queue /= <<>>

\* C2: at any instant at most one worker is inside generator.create_entry.
C2_PersistenceExclusive ==
    /\ Cardinality(InStep("create_entry")) <= 1
    /\ lock = InStep("create_entry")

\* C2 witness: one worker is inside create_entry while two others have
\* reached the persistence step and wait for the lock
C2_Witness ==
    /\ Cardinality(InStep("create_entry")) = 1
    /\ Cardinality(InStep("lock")) = 2

\* run is over: it returned at 298 or 317, or after the summary, or
\* build_site raised out of it
RunEnded == rpc \in {"returned_early", "done", "raised"}

\* the loop over as_completed is over
Collected == rpc \in {"summary", "done", "raised"}

\* C12: every valid image is submitted exactly once (it is queued once and
\* none is left unsubmitted); each failed image is counted as exactly one
\* failure, each successful one as one success; a failure does not keep
\* another image from being processed, and when the loop over the futures is
\* over successful + failed is the number of valid images.
C12_EveryImageCountedOnce ==
    /\ \A i, j \in DOMAIN queue : queue[i] = queue[j] => i = j
    /\ Range(queue) = InStep("queued")
    /\ rpc \in {"collect", "summary", "done", "raised"} => InStep("unsubmitted") = {}
    /\ successful = Cardinality({p \in InStep("counted") : fut[p]})
    /\ failed = Cardinality({p \in InStep("counted") : ~fut[p]})
    /\ (Collected \/ RunEnded) =>
          /\ InStep("counted") = Range(valid_images)
          /\ successful + failed = Len(valid_images)

\* C12 witness: four valid images, two failed and two succeeded, all counted
C12_Witness ==
    /\ rpc = "done"
    /\ Len(valid_images) = 4
    /\ successful = 2
    /\ failed = 2

\* the entries persisted for original p
EntriesOf(p) == {e \in entries : e.original = p}

\* C13: the original image is removed from the inbox only after its entry
\* has been persisted: a discovered image that is no longer in the inbox has
\* an entry (so an image whose persistence or earlier step failed is still
\* in the inbox when the run ends).
C13_OriginalKeptUntilPersisted ==
    \A p \in Range(images) : p \notin files => EntriesOf(p) /= {}

\* in this step the worker of p creates or overwrites its temporary edited
\* file (pipeline.py 189-202), or deletes it (264-266)
TouchesEdited(p) ==
    \/ tpc[p] = "edit" /\ tpc'[p] = "validate"
    \/ tpc[p] = "cleanup" /\ tpc'[p] = "archive" /\ EditedPath(p) \in files

\* C15: the worker processing one image never creates, overwrites or
\* deletes a file that is the input image of another worker.
C15_WorkersTouchDisjointFiles ==
    [][\A p \in DOMAIN tpc :
          TouchesEdited(p) => EditedPath(p) \notin Range(valid_images)]_vars

StepsAfterAnalysis == RunningSteps \ {"analyze"}

\* C16: in a dry run processing an image stops after the analysis: no image
\* is ever in the edit or any later step, the inbox holds exactly the
\* discovered files (no temporary file created, none removed), no entry is
\* persisted and the site is not rebuilt; a processed image is successful
\* exactly when its analysis returned, and is counted so.
C16_DryRunStopsAfterAnalysis ==
    dry_run =>
        /\ \A p \in DOMAIN tpc : tpc[p] \notin StepsAfterAnalysis
        /\ rpc /= "start" => files = Range(images)
        /\ entries = {}
        /\ site_builds = 0
        /\ \A p \in DOMAIN tpc :
              tpc[p] \in {"done", "counted"} => (fut[p] <=> critique[p] /= NoCritique)
        /\ Collected =>
              successful = Cardinality({p \in DOMAIN tpc : critique[p] /= NoCritique})

\* C16 witness: a dry run over three valid images is over; two analyses
\* returned and were counted as successes, one failed
C16_Witness ==
    /\ dry_run
    /\ rpc = "done"
    /\ Len(valid_images) = 3
    /\ successful = 2
    /\ failed = 1
    /\ files = Range(images)

\* C17: every pipeline run prints the final summary, also when some or all
\* images fail or are invalid: a run that is over has printed it.
C17_SummaryAlwaysPrinted == RunEnded => rpc = "done"

\* C18 as stated: the dict analyze returned for an image is never modified
\* afterwards: no step adds, removes or changes a field of it.
C18_ConsensusResultNeverModified ==
    [][\A p \in DOMAIN critique :
          critique[p] /= NoCritique => critique'[p] = critique[p]]_vars

\* C18 amended: the dict analyze returned for an image is modified after its
\* return in one way only: the re-review step adds the field re_review to
\* it; no step removes a field or adds any other, so it always has the fields
\* analyze gave it.
C18_OnlyReReviewAdded ==
    /\ [][\A p \in DOMAIN critique :
             (critique[p] /= NoCritique /\ critique'[p] /= critique[p])
                => /\ tpc[p] = "rereview"
                   /\ critique'[p] = critique[p] \cup {"re_review"}]_vars
    /\ [](\A p \in DOMAIN critique :
             critique[p] /= NoCritique
                => /\ ConsensusKeys \subseteq critique[p]
                   /\ critique[p] \subseteq ConsensusKeys \cup {"re_review"})

\* C18 witness: an image's critique has gained re_review, its entry has been
\* persisted from it and the image was finished as successful
C18_Witness ==
    \E p \in DOMAIN tpc :
        /\ tpc[p] = "done"
        /\ fut[p]
        /\ critique[p] = ConsensusKeys \cup {"re_review"}
        /\ \E e \in EntriesOf(p) : e.metadata = critique[p] \cup EntryKeys

(***************************************************************************)
(* Claims about BaseCritic._parse_response                                 *)
(***************************************************************************)
Parsed == presult.kind = "return"

\* the JSON object of the response text under its layout
ResponseValue == SelectSeq(unwrap(raw_response), LAMBDA tok : ~IsSpace(tok))[1].v

\* C19 as stated: every critique returned by response parsing has a
\* non-empty improvements list.
C19_ImprovementsNeverEmpty ==
    Parsed => presult.value.improvements /= <<>>

\* C19 amended: the improvements list of the critique returned by response
\* parsing has one entry per entry of the backend's improvements array: an
\* empty array gives an empty list and no default improvement is added.
C19_ImprovementsAsGiven ==
    Parsed =>
        /\ Len(presult.value.improvements) = Len(ResponseValue.m.improvements.items)
        /\ ResponseValue.m.improvements.items = <<>>
              => presult.value.improvements = <<>>

\* C19 witness: a fenced response whose improvements array is empty has
\* been parsed into a critique with no improvements
C19_Witness ==
    /\ Parsed
    /\ raw_response[1] = Fence
    /\ ResponseValue.m.improvements = List(<<>>)
    /\ presult.value.improvements = <<>>
    /\ presult.value.score = 200

\* the score in the text the i-th invoked backend answered with
BackendScore(i) == invoked[i].reply.text[1].v.m.score.h

\* C20: the score of every parsed critique lies in [0, 100] (0..200 half
\* points): a backend score above 100 becomes 100, one below 0 becomes 0, one
\* inside the range is kept; hence every consensus score lies in [0, 100]
\* (0..1000 tenths).
C20_ScoresWithinRange ==
    /\ \A i \in Succeeded :
          LET given == BackendScore(i)
              score == invoked[i].outcome.value.score
          IN /\ score \in 0..MaxScore
             /\ given > MaxScore => score = MaxScore
             /\ given < 0 => score = 0
             /\ given \in 0..MaxScore => score = given
    /\ \A i \in DOMAIN critiques :
          critiques[i].score /= NoScore => critiques[i].score \in 0..MaxScore
    /\ cpc = "returned" => cresult.consensus_score \in 0..(5 * MaxScore)

\* C20 witness: one backend answered 150, another -10 and a third 70.5; the
\* critiques carry 100, 0 and 70.5 and the consensus is 56.8
C20_Witness ==
    /\ cpc = "returned"
    /\ Len(invoked) = 3
    /\ \A i \in 1..3 : i \in Succeeded
    /\ BackendScore(1) = 300 /\ critiques[1].score = 200
    /\ BackendScore(2) = -20 /\ critiques[2].score = 0
    /\ BackendScore(3) = 141 /\ critiques[3].score = 141
    /\ cresult.consensus_score = 568


(***************************************************************************)
(* C21                                                                     *)
(***************************************************************************)
\* the lines of the response text without the whitespace around the text
ResponseLines == SplitLines(StripText(raw_response))

\* the response text is some text wrapped in a markdown fence: an opening
\* fence line with or without the json tag, and a closing fence line
IsFenced ==
    /\ Len(ResponseLines) >= 3
    /\ ResponseLines[1] \in {<<Fence>>, <<Fence, JsonWord>>}
    /\ ResponseLines[Len(ResponseLines)] = <<Fence>>

\* the text between the two fence lines
FencedBody == JoinLines(SubSeq(ResponseLines, 2, Len(ResponseLines) - 1))

\* a text that is the JSON text of a valid critique
ValidCritiqueText(J) ==
    /\ json_loads(J).kind = "return"
    /\ validated(json_loads(J).value).kind = "return"

\* C21: whenever the parsed response text is a valid critique JSON text J
\* wrapped in a markdown fence (opening fence line with or without the json
\* tag, closing fence line), the critique returned is the one parsing J
\* unwrapped returns, and the one parsing J with whitespace around it
\* returns.
C21_FencedParsesAsUnwrapped ==
    (presult /= NotParsed /\ IsFenced /\ ValidCritiqueText(FencedBody)) =>
        /\ presult = parse_response(FencedBody)
        /\ presult = parse_response(<<Nl, Ws>> \o FencedBody \o <<Ws, Nl>>)
        /\ Parsed

\* C21 witness: a critique written on two lines inside a json-tagged fence
\* has been parsed into a critique with rewritten structured improvements
C21_Witness ==
    /\ Parsed
    /\ IsFenced
    /\ ResponseLines[1] = <<Fence, JsonWord>>
    /\ Len(ResponseLines) = 4
    /\ ValidCritiqueText(FencedBody)
    /\ "improvements_detailed" \in DOMAIN presult.value
    /\ presult.value.score = MaxScore


(***************************************************************************)
(* C22                                                                     *)
(***************************************************************************)
\* the improvements array of the response
GivenItems == ResponseValue.m.improvements.items

AllStructured == GivenItems /= <<>> /\ \A i \in DOMAIN GivenItems : GivenItems[i].j = "object"
AllStrings == \A i \in DOMAIN GivenItems : GivenItems[i].j = "string"

\* the priority the claim gives an item: its own, 5 when it has none
ClaimedPriority(item) ==
    IF "priority" \in DOMAIN item.m THEN item.m.priority.h ELSE 5

\* the string '[INTENSITY] action' of an item
ClaimedString(item) ==
    <<"[">>
    \o Upper(IF "intensity" \in DOMAIN item.m THEN item.m.intensity.s
             ELSE <<"m","o","d","e","r","a","t","e">>)
    \o <<"]", " ">> \o item.m.action.s

\* pi orders the items by ascending priority, equal priorities in input order
IsPriorityOrder(pi) ==
    /\ \A i, k \in DOMAIN pi : i /= k => pi[i] /= pi[k]
    /\ \A i, k \in DOMAIN pi :
          i < k =>
            \/ ClaimedPriority(GivenItems[pi[i]]) < ClaimedPriority(GivenItems[pi[k]])
            \/ /\ ClaimedPriority(GivenItems[pi[i]]) = ClaimedPriority(GivenItems[pi[k]])
               /\ pi[i] < pi[k]

\* C22: structured improvements are returned as the strings
\* '[INTENSITY] action' in ascending order of priority, a missing priority
\* counting as 5 and equal priorities keeping their input order; a list of
\* plain strings is returned unchanged, in the same order.
C22_StructuredSortedStringsKept ==
    Parsed =>
        /\ AllStructured =>
              \E pi \in [DOMAIN GivenItems -> DOMAIN GivenItems] :
                 /\ IsPriorityOrder(pi)
                 /\ presult.value.improvements =
                       [i \in DOMAIN GivenItems |-> ClaimedString(GivenItems[pi[i]])]
        /\ AllStrings =>
              presult.value.improvements =
                 [i \in DOMAIN GivenItems |-> GivenItems[i].s]

\* C22 witness: items of priorities 7, none, 5, 1 have been parsed: the
\* priority-1 item comes first, the item without priority before the
\* priority-5 item that followed it, the priority-7 item last
C22_Witness ==
    /\ Parsed
    /\ GivenItems = <<StructuredLate, StructuredBare, StructuredFive, StructuredLift>>
    /\ presult.value.improvements =
          <<ClaimedString(StructuredLift), ClaimedString(StructuredBare),
            ClaimedString(StructuredFive), ClaimedString(StructuredLate)>>


(***************************************************************************)
(* C23                                                                     *)
(***************************************************************************)
\* the response text holds a JSON object
ResponseIsObject ==
    /\ json_loads(unwrap(raw_response)).kind = "return"
    /\ json_loads(unwrap(raw_response)).value.j = "object"

RequiredKeys == {"score", "improvements", "notes"}

\* the fields of the response object that break the schema: a required key
\* that is missing, a score that is not a JSON number, improvements that
\* are not an array, notes that are not a string
OffendingFields ==
    LET m == ResponseValue.m
    IN (RequiredKeys \ DOMAIN m)
       \cup {k \in {"score"} \cap DOMAIN m : m[k].j /= "number"}
       \cup {k \in {"improvements"} \cap DOMAIN m : m[k].j /= "array"}
       \cup {k \in {"notes"} \cap DOMAIN m : m[k].j /= "string"}

FieldName(k) ==
    CASE k = "score" -> <<"s","c","o","r","e">>
      [] k = "improvements" -> <<"i","m","p","r","o","v","e","m","e","n","t","s">>
      [] k = "notes" -> <<"n","o","t","e","s">>

\* C23: a response object that misses one of the keys score, improvements,
\* notes, or whose score is not a number, whose improvements are not a list
\* or whose notes are not a string, is rejected with an error and gives no
\* critique; the error is the missing-keys error when a key is missing and
\* otherwise names an offending field.
C23_SchemaViolationRejected ==
    (presult /= NotParsed /\ ResponseIsObject /\ OffendingFields /= {}) =>
        /\ presult.kind = "raise"
        /\ IF RequiredKeys \ DOMAIN ResponseValue.m /= {}
           THEN presult.value = MsgMissingKeys
           ELSE \E k \in OffendingFields :
                   Contains(Lower(presult.value), FieldName(k))


(***************************************************************************)
(* C24                                                                     *)
(***************************************************************************)
RECURSIVE Pow(_, _)
Pow(b, e) == IF e = 0 THEN 1 ELSE b * Pow(b, e - 1)

\* C24: the wrapper sleeps once before each retry and at no other time:
\* while a call is running or being handled, and once the wrapper has
\* returned or raised, there is one sleep fewer than calls (none after the
\* last attempt, none after a success), and before a retry's call one sleep
\* per call made; the i-th sleep lasts
\* initial_delay * backoff_factor^(i-1).
C24_BackoffSleeps ==
    /\ \A i \in DOMAIN sleeps :
          sleeps[i] = initial_delay * Pow(backoff_factor, i - 1)
    /\ wpc \in {"in_func", "handle", "returned", "raised"} =>
          Len(sleeps) = call_count - 1
    /\ wpc = "loop" => Len(sleeps) = call_count
    /\ Len(sleeps) <= max_retries

\* C24 witness: initial delay 0.1 s, factor 2, 2 retries, every call hits a
\* rate limit: the wrapper has raised after 3 calls and slept 0.1 s, 0.2 s
C24_Witness ==
    /\ wpc = "raised"
    /\ max_retries = 2
    /\ initial_delay = 1
    /\ backoff_factor = 2
    /\ call_count = 3
    /\ sleeps = <<1, 2>>


(***************************************************************************)
(* C25                                                                     *)
(***************************************************************************)
\* the substrings the claim lists
ClaimedPatterns ==
    { <<"r","a","t","e"," ","l","i","m","i","t">>,
      <<"q","u","o","t","a">>,
      <<"4","2","9">>,
      <<"t","i","m","e","o","u","t">>,
      <<"t","e","m","p","o","r","a","r","i","l","y"," ","u","n","a","v","a","i","l","a","b","l","e">>,
      <<"s","e","r","v","i","c","e"," ","u","n","a","v","a","i","l","a","b","l","e">>,
      <<"5","0","3">>,
      <<"5","0","0">> }

\* the claim's list and 'too many requests'
AmendedPatterns == ClaimedPatterns \cup {<<"t","o","o"," ","m","a","n","y"," ","r","e","q","u","e","s","t","s">>}

MatchesOneOf(m, patterns) == \E pat \in patterns : Contains(Lower(m), pat)

\* every error that was followed by another call matches one of the
\* patterns, and every error the wrapper raised while retries were left
\* matches none
RetriedIffMatches(patterns) ==
    /\ \A i \in 1..(call_count - 1) : MatchesOneOf(script[i].value, patterns)
    /\ (wpc = "raised" /\ call_count <= max_retries) =>
           ~MatchesOneOf(wresult.value, patterns)

\* C25 as stated: an error is retried if and only if its message, compared
\* case-insensitively, contains one of rate limit, quota, 429, timeout,
\* temporarily unavailable, service unavailable, 503, 500; every other
\* error is fatal and never retried.
C25_RetryableIffListedPattern == RetriedIffMatches(ClaimedPatterns)

\* C25 amended: an error is retried if and only if its message, compared
\* case-insensitively, contains one of rate limit, quota, too many
\* requests, 429, timeout, temporarily unavailable, service unavailable,
\* 503, 500; every other error is fatal and never retried.
C25_RetryableIffCodePattern == RetriedIffMatches(AmendedPatterns)

\* C25 witness: a call that raised 'Too Many Requests' was retried, and the
\* wrapper has ended
C25_Witness ==
    /\ WrapperDone
    /\ call_count = 2
    /\ script[1] = Raised(PatTooManyMixed)
    /\ ~MatchesOneOf(PatTooManyMixed, ClaimedPatterns)


(***************************************************************************)
(* Claims about the site generator                                         *)
(***************************************************************************)
\* C26: get_all_entries returns the persisted entries newest first:
\* whenever entry A was created after entry B, also within the same second,
\* A comes before B in the returned list.
C26_NewestFirst ==
    LET listing == get_all_entries
    IN \A i, k \in DOMAIN listing :
          listing[i].call > listing[k].call => i < k

\* C27: every create_entry call yields an entry ID (and so a directory)
\* distinct from that of every other call, also within the same second: no
\* call writes into the directory of an existing entry, and there are as
\* many entries as calls.
C27_EntryIdsDistinct ==
    /\ \A i, k \in DOMAIN created : i /= k => created[i] /= created[k]
    /\ Cardinality(processed) = Len(created)

HasPage(e, pages) == \E page \in pages : page.entry_id = e.entry_id

BuildStep == build_count' = build_count + 1

\* C28: an incremental build_site leaves the page of every entry that
\* already has one unchanged and writes a page for every entry that has
\* none; every build rewrites the index page, which then lists the
\* entries; and whenever the last call was a build, every entry has a page.
C28_IncrementalBuild ==
    /\ [][(BuildStep /\ last_call' = "build_site") =>
             /\ \A page \in public :
                   (\E e \in processed : e.entry_id = page.entry_id) => page \in public'
             /\ \A e \in processed :
                   ~HasPage(e, public) =>
                      [entry_id |-> e.entry_id, html |-> Rendered(e)] \in public']_vars
    /\ [][BuildStep =>
             /\ index_html'.kind = "rendered"
             /\ {index_html'.listed[i] : i \in DOMAIN index_html'.listed}
                   = {e.entry_id : e \in processed}]_vars
    /\ [](last_call \in {"build_site", "build_site_full"} =>
             \A e \in processed : HasPage(e, public))

\* C28 witness: the last call was an incremental build, the second build:
\* it left a page edited by hand as it was, wrote the page of an entry
\* created since the first build, and rewrote the index edited by hand
C28_Witness ==
    /\ last_call = "build_site"
    /\ build_count = 2
    /\ Cardinality(processed) = 2
    /\ \E page \in public : page.html = Modified
    /\ \E page \in public : page.html.kind = "rendered" /\ page.html.call = 2
    /\ index_html.kind = "rendered"
    /\ Len(index_html.listed) = 2


(***************************************************************************)
(* C29, C30                                                                *)
(***************************************************************************)
\* the place of a step of process_image in the order analyze, edit,
\* re-review, persist, delete the temporary edited image, remove the
\* original
OrderOf(step) ==
    CASE step = "analyze" -> 1
      [] step \in {"edit", "validate"} -> 2
      [] step = "rereview" -> 3
      [] step \in {"lock", "create_entry"} -> 4
      [] step = "cleanup" -> 5
      [] step = "archive" -> 6

\* C29: in a non-dry run the steps of one image happen in the order
\* analyze, edit, re-review, persist, delete the temporary edited image,
\* remove the original, whatever the other images do: an image starts with
\* the analysis, leaves a step only for the next one in the order or for the
\* end of process_image, ends successfully only from the last step, is
\* edited only once its analysis has returned, and has its temporary and
\* original files removed only once its entry exists.
C29_StepsInOrder ==
    /\ [][~dry_run =>
             \A p \in DOMAIN tpc :
                (p \in DOMAIN tpc' /\ tpc'[p] /= tpc[p]) =>
                   /\ tpc[p] = "queued" => tpc'[p] = "analyze"
                   /\ tpc'[p] \in RunningSteps =>
                         \/ tpc[p] = "queued"
                         \/ /\ tpc[p] \in RunningSteps
                            /\ OrderOf(tpc'[p]) \in {OrderOf(tpc[p]), OrderOf(tpc[p]) + 1}
                   /\ (tpc'[p] = "done" /\ fut'[p]) => tpc[p] = "archive"]_vars
    /\ [](~dry_run =>
             \A p \in DOMAIN tpc :
                /\ (tpc[p] \in RunningSteps /\ OrderOf(tpc[p]) >= 2)
                      => critique[p] /= NoCritique
                /\ (tpc[p] \in RunningSteps /\ OrderOf(tpc[p]) >= 5)
                      => EntriesOf(p) /= {})

\* C29 witness: in a non-dry run one image is about to be removed from the
\* inbox, its entry persisted and its temporary file deleted, while another
\* image is being edited and a third is waiting for the lock
C29_Witness ==
    /\ ~dry_run
    /\ \E p, q, r \in DOMAIN tpc :
          /\ tpc[p] = "archive"
          /\ EntriesOf(p) /= {}
          /\ EditedPath(p) \notin files
          /\ tpc[q] = "edit"
          /\ tpc[r] = "lock"

\* C30: in a non-dry run with at least one valid image the site is rebuilt
\* exactly once: never more than once, not before every image has finished
\* processing and its result has been collected, never while a worker is
\* running, and once by the time the run ends.
C30_SiteBuiltOnceAfterAll ==
    (~dry_run /\ Len(valid_images) >= 1) =>
        /\ site_builds <= 1
        /\ site_builds = 1 =>
              /\ InFlight = {}
              /\ queue = <<>>
              /\ \A p \in DOMAIN tpc : tpc[p] = "counted"
              /\ successful + failed = Len(valid_images)
        /\ RunEnded => site_builds = 1

\* C30 witness: a non-dry run over three valid images, one of which
\* failed, has ended after one rebuild of the site
C30_Witness ==
    /\ ~dry_run
    /\ rpc = "done"
    /\ Len(valid_images) = 3
    /\ failed = 1
    /\ successful = 2
    /\ site_builds = 1


(***************************************************************************)
(* RefractPipeline.get_new_images (pipeline.py 95-118)                     *)
(*                                                                         *)
(* An entry of the inbox directory is its name and whether it is a regular *)
(* file.  An inbox that does not exist is found like an empty one.         *)
(***************************************************************************)
\* the entries the inbox holds some of: a.jpg, b.JPG, c.Jpg, d.png, e.WEBP, f.heic, g.HEIF, h.HeIc, .i.jpg, j.txt, k, l.jpeg/
DirEntries ==
    { [name |-> <<"a",".","j","p","g">>, is_file |-> TRUE],
      [name |-> <<"b",".","J","P","G">>, is_file |-> TRUE],
      [name |-> <<"c",".","J","p","g">>, is_file |-> TRUE],
      [name |-> <<"d",".","p","n","g">>, is_file |-> TRUE],
      [name |-> <<"e",".","W","E","B","P">>, is_file |-> TRUE],
      [name |-> <<"f",".","h","e","i","c">>, is_file |-> TRUE],
      [name |-> <<"g",".","H","E","I","F">>, is_file |-> TRUE],
      [name |-> <<"h",".","H","e","I","c">>, is_file |-> TRUE],
      [name |-> <<".","i",".","j","p","g">>, is_file |-> TRUE],
      [name |-> <<"j",".","t","x","t">>, is_file |-> TRUE],
      [name |-> <<"k">>, is_file |-> TRUE],
      [name |-> <<"l",".","j","p","e","g">>, is_file |-> FALSE] }

\* pathlib's suffix: the name from its last dot on, unless that dot is the
\* first or the last character
suffix_of(name) ==
    LET dots == {i \in DOMAIN name : name[i] = "."}
    IN IF dots = {} THEN <<>>
       ELSE LET last == CHOOSE i \in dots : \A j \in dots : j <= i
            IN IF last > 1 /\ last < Len(name)
               THEN SubSeq(name, last, Len(name))
               ELSE <<>>

\* pipeline.py 101-108
image_extensions ==
    { <<".","j","p","g">>, <<".","j","p","e","g">>, <<".","p","n","g">>, <<".","w","e","b","p">>,
      <<".","J","P","G">>, <<".","J","P","E","G">>, <<".","P","N","G">>, <<".","W","E","B","P">> }
    \cup (IF HEIC_SUPPORT
          THEN { <<".","h","e","i","c">>, <<".","h","e","i","f">>,
                 <<".","H","E","I","C">>, <<".","H","E","I","F">> }
          ELSE {})

RECURSIVE sorted_paths(_)
\* pipeline.py 118: sorted(images), paths of one directory compare by their
\* names, character by character in code point order ("." before the
\* capitals, the capitals before the small letters)
sorted_paths(S) ==
    LET order == <<".">> \o UpperLetters \o LowerLetters
        code(c) == CHOOSE i \in DOMAIN order : order[i] = c
        differ(a, b) == {i \in 1..Min(Len(a), Len(b)) : a[i] /= b[i]}
        less(a, b) ==
            IF differ(a, b) = {} THEN Len(a) < Len(b)
            ELSE LET i == CHOOSE k \in differ(a, b) : \A j \in differ(a, b) : k <= j
                 IN code(a[i]) < code(b[i])
    IN IF S = {} THEN <<>>
       ELSE LET first == CHOOSE e \in S : \A o \in S \ {e} : less(e.name, o.name)
            IN <<first>> \o sorted_paths(S \ {first})

\* pipeline.py 110-118
get_new_images(dir) ==
    sorted_paths({file_path \in dir :
                    /\ file_path.is_file
                    /\ suffix_of(file_path.name) \in image_extensions
                    /\ file_path.name[1] /= "."})

\* pipeline.py 95-118: get_new_images is called
Discover ==
    /\ rpc = "start"
    /\ images' = get_new_images(files)
    /\ rpc' = "discovered"
    /\ UNCHANGED <<files, dry_run, has_editor, valid_images, invalid_images,
                   max_workers, queue, tpc, critique, fut, lock, entries,
                   successful, failed, site_builds, HEIC_SUPPORT>>

DiscoverInit ==
    /\ files \in SUBSET DirEntries
    /\ HEIC_SUPPORT \in BOOLEAN
    /\ rpc = "start"
    /\ images = <<>>
    /\ dry_run = FALSE
    /\ has_editor = FALSE
    /\ valid_images = <<>>
    /\ invalid_images = {}
    /\ max_workers = 0
    /\ queue = <<>>
    /\ tpc = <<>>
    /\ critique = <<>>
    /\ fut = <<>>
    /\ lock = {}
    /\ entries = {}
    /\ successful = 0
    /\ failed = 0
    /\ site_builds = 0
    /\ RetryIdle
    /\ ParseIdle
    /\ GenIdle
    /\ CriticIdle
    /\ EditIdle

DiscoverNext == Discover /\ UNCHANGED notRun

SpecDiscover == DiscoverInit /\ [][DiscoverNext]_vars

(***************************************************************************)
(* C31                                                                     *)
(***************************************************************************)
\* the chunks of the improvements edit was given
Chunks == chunk_improvements(improvements, max_passes)

\* the response of a pass holds usable image data: a payload that decodes
Usable(r) == r.kind = "data" /\ r.decodable

\* edit has come to its return statement
EditDecided == epc = "return"

\* every pass was run and returned usable image data
EveryPassSucceeded ==
    /\ Len(gen_calls) = Len(Chunks)
    /\ \A i \in DOMAIN gen_calls : Usable(gen_calls[i].response)

\* the passes run one at a time in chunk order, the first on the original
\* image and each later one on the image the pass before it produced
PassesChained ==
    /\ Len(gen_calls) <= Len(Chunks)
    /\ \A i \in DOMAIN gen_calls :
          /\ gen_calls[i].pass_index = i
          /\ gen_calls[i].pass_improvements = Chunks[i]
          /\ i = 1 => gen_calls[i].working_img = OriginalImage
          /\ i > 1 =>
                /\ Usable(gen_calls[i - 1].response)
                /\ gen_calls[i].working_img = Decoded(gen_calls[i - 1].response)

\* C31 as stated: the passes run one at a time in chunk order; pass 1 gets
\* the original image and pass k > 1 exactly the image pass k-1 produced;
\* when every pass succeeds the final output is the image of the last pass.
C31_PassesChainedLastImageOut ==
    /\ PassesChained
    /\ (EditDecided /\ EveryPassSucceeded) =>
          output = Decoded(gen_calls[Len(gen_calls)].response)

\* C31 amended: the passes run one at a time in chunk order; pass 1 gets
\* the original image and pass k > 1 exactly the image pass k-1 produced;
\* when every pass succeeds and the bytes of the last pass are more than 100
\* and verify once written, the final output is the image of the last pass.
C31_PassesChainedLastSavedOut ==
    /\ PassesChained
    /\ (/\ EditDecided
        /\ EveryPassSucceeded
        /\ gen_calls[Len(gen_calls)].response.big
        /\ gen_calls[Len(gen_calls)].response.verifies) =>
          output = Decoded(gen_calls[Len(gen_calls)].response)

\* C31 witness: three passes over three improvements have run, each on the
\* image of the pass before, and the image of the third pass is the output
C31_Witness ==
    /\ EditDecided
    /\ Len(Chunks) = 3
    /\ EveryPassSucceeded
    /\ gen_calls[3].working_img = [kind |-> "generated", pass |-> 2]
    /\ output = [kind |-> "generated", pass |-> 3]


(***************************************************************************)
(* C32                                                                     *)
(***************************************************************************)
\* C32: a pass whose response holds no usable image data (no image payload,
\* or a payload that does not decode) is the last generate call of the edit
\* call: the generate step is not called again.
C32_NoPassAfterUnusableData ==
    \A i \in DOMAIN gen_calls :
       (gen_calls[i].response.kind \in {"no_image", "data"}
            /\ ~Usable(gen_calls[i].response)) =>
          /\ i = Len(gen_calls)
          /\ epc /= "loop"

\* C32 witness: of three passes the first gave an image and the second a
\* payload that does not decode; edit has ended after two generate calls
C32_Witness ==
    /\ EditDecided
    /\ Len(Chunks) = 3
    /\ Len(gen_calls) = 2
    /\ Usable(gen_calls[1].response)
    /\ gen_calls[2].response.kind = "data"
    /\ ~gen_calls[2].response.decodable


(***************************************************************************)
(* C33                                                                     *)
(***************************************************************************)
\* the chunks put together are the improvements, in order, and pass i of the
\* edit call is run on chunk i: as many passes as chunks unless one aborts
ChunksCoverInOrder ==
    /\ Flatten(Chunks) = improvements
    /\ Len(gen_calls) <= Len(Chunks)
    /\ \A i \in DOMAIN gen_calls : gen_calls[i].pass_improvements = Chunks[i]
    /\ (EditDecided /\ EveryPassSucceeded) => Len(gen_calls) = Len(Chunks)

\* C33 as stated: N passes and k improvements give exactly min(N, k)
\* consecutive non-empty chunks (one chunk when N <= 1 or k <= 1) whose
\* concatenation is the list in order, and one pass is run per chunk.
C33_ExactlyMinChunks ==
    /\ Len(Chunks) = IF max_passes <= 1 \/ Len(improvements) <= 1 THEN 1
                     ELSE Min(max_passes, Len(improvements))
    /\ \A c \in DOMAIN Chunks : Chunks[c] /= <<>>
    /\ ChunksCoverInOrder

\* C33 amended: N passes and k improvements give consecutive chunks of
\* ceil(k / N) improvements each, the last one possibly shorter, so at most
\* min(N, k) of them when k >= 1 (one chunk holding the whole list when
\* N <= 1 or k <= 1); they are non-empty when k >= 1, their concatenation is
\* the list in order, and one pass is run per chunk.
C33_AtMostMinChunks ==
    LET k == Len(improvements)
        size == (k + max_passes - 1) \div max_passes
    IN /\ IF max_passes <= 1 \/ k <= 1
             THEN Chunks = <<improvements>>
             ELSE /\ Len(Chunks) <= Min(max_passes, k)
                  /\ \A c \in DOMAIN Chunks :
                        Len(Chunks[c]) = IF c < Len(Chunks) THEN size
                                         ELSE k - (Len(Chunks) - 1) * size
       /\ k >= 1 => \A c \in DOMAIN Chunks : Chunks[c] /= <<>>
       /\ ChunksCoverInOrder

\* C33 witness: four improvements and three passes were run as two chunks of
\* two, each given to one pass
C33_Witness ==
    /\ EditDecided
    /\ Len(improvements) = 4
    /\ max_passes = 3
    /\ Len(Chunks) = 2
    /\ Len(gen_calls) = 2
    /\ gen_calls[2].pass_improvements = SubSeq(improvements, 3, 4)


(***************************************************************************)
(* C34                                                                     *)
(***************************************************************************)
\* the edit call ended its passes early at a pass after the first: that
\* pass returned no usable image data, the passes before it had succeeded
AbortedAfterFirstPass ==
    /\ Len(gen_calls) > 1
    /\ gen_calls[Len(gen_calls)].response.kind \in {"no_image", "data"}
    /\ ~Usable(gen_calls[Len(gen_calls)].response)

\* edit left an image at output_path: it returns True exactly then
OutputWritten == eres = TRUE

\* the output is the image some pass produced
OutputOfSomePass ==
    /\ OutputWritten
    /\ \E i \in DOMAIN gen_calls :
          /\ gen_calls[i].response.kind = "data"
          /\ output = Decoded(gen_calls[i].response)

\* C34 as stated: when a multi-pass edit aborts at pass k > 1 the final
\* output is the fallback enhancement of the original image with the full
\* improvement list, never the image of pass k-1.
C34_AbortGivesFallbackOutput ==
    (EditDecided /\ AbortedAfterFirstPass) =>
       /\ OutputWritten
       /\ output = FallbackOutput
       /\ ~OutputOfSomePass

\* C34 amended: when a multi-pass edit aborts at pass k > 1 the fallback
\* enhancement of the original image with the full improvement list is
\* attempted; the final output is that enhancement when an attempt works,
\* there is no output and edit reports failure when the attempts in the body
\* and in the handler both fail, and it is never the image of pass k-1.
C34_AbortNeverUsesEarlierPass ==
    (EditDecided /\ AbortedAfterFirstPass) =>
       /\ fb_log /= <<>>
       /\ fb_log[1].at = "try"
       /\ FallbackWorked => OutputWritten /\ output = FallbackOutput
       /\ ~FallbackWorked => ~OutputWritten /\ Len(fb_log) = 2
       /\ ~OutputOfSomePass

\* C34 witness: two passes gave worthwhile images and the third no image
\* payload; the output is the enhancement of the original with all three
\* improvements
C34_Witness ==
    /\ EditDecided
    /\ Len(improvements) = 3
    /\ Len(gen_calls) = 3
    /\ ValidBytes(gen_calls[2].response)
    /\ gen_calls[3].response.kind = "no_image"
    /\ OutputWritten
    /\ output = [kind |-> "fallback", of |-> OriginalImage,
                 improvements |-> improvements]


(***************************************************************************)
(* C35                                                                     *)
(***************************************************************************)
\* C35: MultiCritic.analyze never lets an exception out: whatever the
\* backends did (a failure, or any response that passes validation, also
\* one whose improvements are not all strings), once every critic was asked
\* it returns a result built from the backends that answered.
C35_AnalyzeNeverRaises ==
    /\ cpc /= "raised"
    /\ cpc = "returned" =>
          Len(cresult.critiques) = Len(critics)


(***************************************************************************)
(* C36                                                                     *)
(***************************************************************************)
\* C36: when process_image has returned in a run that is not a dry run,
\* with success or with failure at any step, the temporary edited file it
\* created (one that was not in the inbox at discovery) is gone from the
\* inbox, so that a later discovery does not list it.
C36_EditedFileGoneOnReturn ==
    \A p \in DOMAIN tpc :
       ( /\ tpc[p] \in {"done", "counted"}
         /\ ~dry_run
         /\ EditedPath(p) \notin Range(images) )
       => EditedPath(p) \notin files


(***************************************************************************)
(* C37                                                                     *)
(***************************************************************************)
\* every name a file of the inbox can have in a run
InboxNames == {InboxName(i) : i \in 1..MaxImages} \cup {StaleEdited}

\* p is waiting for, or holding, the lock of the persistence step
AtLock(p) == p \in DOMAIN tpc /\ tpc[p] = "lock"
HoldsLock(p) == p \in DOMAIN tpc /\ tpc[p] = "create_entry" /\ p \in lock

\* create_entry of p has returned or raised
Persisted(p) == p \in DOMAIN tpc /\ EntriesOf(p) /= {}
PersistenceOver(p) ==
    /\ p \in DOMAIN tpc
    /\ p \notin lock
    /\ \/ EntriesOf(p) /= {}
       \/ tpc[p] \in {"done", "counted"} /\ ~fut[p]

\* the worker of p leaves create_entry by an exception
CreateEntryRaises(p) ==
    /\ p \in DOMAIN tpc
    /\ tpc[p] = "create_entry"
    /\ tpc'[p] = "done"

\* C37: a persistence failure is fatal for that image only: when
\* create_entry raises in one worker the lock is released and the image is
\* counted as failed; every worker that reaches the persistence step
\* acquires the lock in the end and its create_entry runs (no deadlock), and
\* an entry that was persisted stays (no lost entry).
C37_PersistenceFailureLocal ==
    /\ [][\A p \in InboxNames : CreateEntryRaises(p) =>
             /\ lock' = {}
             /\ fut'[p] = FALSE
             /\ entries' = entries]_vars
    /\ [][entries \subseteq entries']_vars
    /\ [](failed = Cardinality({p \in DOMAIN tpc : tpc[p] = "counted" /\ ~fut[p]}))
    /\ \A p \in InboxNames :
          /\ (p \in DOMAIN tpc /\ tpc[p] = "done")
                 ~> (p \in DOMAIN tpc /\ tpc[p] = "counted")
          /\ AtLock(p) ~> HoldsLock(p)
          /\ HoldsLock(p) ~> PersistenceOver(p)

\* C37 witness: create_entry of one image raised after its re-review (its
\* two files are still in the inbox) and another worker holds the lock now
C37_Witness ==
    \E p \in DOMAIN tpc, q \in DOMAIN tpc :
       /\ p /= q
       /\ tpc[p] \in {"done", "counted"}
       /\ ~fut[p]
       /\ "re_review" \in critique[p]
       /\ p \in files
       /\ EditedPath(p) \in files
       /\ EntriesOf(p) = {}
       /\ HoldsLock(q)


(***************************************************************************)
(* C38                                                                     *)
(***************************************************************************)
\* the genres the backends that answered named, in backend order
NamedGenres == genres_of(contexts_of(invoked))

\* the number of backends that named the genre
NamedCount(g) == Cardinality({i \in DOMAIN NamedGenres : NamedGenres[i] = g})

\* the first, in backend order, of the genres named most often
FirstMostCommon ==
    LET first == CHOOSE i \in DOMAIN NamedGenres :
                    /\ \A k \in DOMAIN NamedGenres :
                          NamedCount(NamedGenres[i]) >= NamedCount(NamedGenres[k])
                    /\ \A k \in 1..(i - 1) :
                          NamedCount(NamedGenres[k]) < NamedCount(NamedGenres[i])
    IN NamedGenres[first]

\* C38: the merged genre is the value the largest number of backends
\* reported among the non-empty genre values; of several values with that
\* count the one that comes first in backend order is chosen, so that the
\* same ordered backend results always give the same genre.
C38_MostCommonGenreFirstWins ==
    (cpc = "returned" /\ NamedGenres /= <<>>) =>
       cresult.context.genre = FirstMostCommon


(***************************************************************************)
(* C39                                                                     *)
(***************************************************************************)
\* C39: every action the editor derives from an improvement string carries
\* one of the intensities subtle, moderate, significant: the level of the
\* leading bracketed tag, in any case, or moderate when there is no tag, the
\* action being the text after the tag.
C39_IntensityOneOfThree ==
    \A i \in DOMAIN gen_calls :
       \A k \in DOMAIN gen_calls[i].prompt :
          gen_calls[i].prompt[k].intensity
             \in {IntensitySubtle, DefaultIntensity,
                  <<"s","i","g","n","i","f","i","c","a","n","t">>}


(***************************************************************************)
(* C40                                                                     *)
(***************************************************************************)
\* the extensions discovery recognizes, in small letters
RecognizedExtensions ==
    { <<".","j","p","g">>, <<".","j","p","e","g">>, <<".","p","n","g">>, <<".","w","e","b","p">> }
    \cup (IF HEIC_SUPPORT THEN { <<".","h","e","i","c">>, <<".","h","e","i","f">> } ELSE {})

\* C40: discovery returns exactly the regular files directly inside the
\* inbox whose extension, in any mix of upper and lower case, is jpg, jpeg,
\* png or webp (heic and heif too when the decoder is available) and whose
\* name does not start with a dot.
C40_DiscoveryIgnoresCase ==
    rpc = "discovered" =>
       {images[i] : i \in DOMAIN images}
          = {e \in files : /\ e.is_file
                           /\ Lower(suffix_of(e.name)) \in RecognizedExtensions
                           /\ e.name[1] /= "."}

====
